---- MODULE Spec2Model ----
(***************************************************************************)
(* vibesOnly: the session / transcript store and the asynchronous analysis *)
(* pipeline of server.js, over the PostgreSQL tables sessions,             *)
(* transcript_messages and analyses (READ COMMITTED, the pg default).      *)
(***************************************************************************)
EXTENDS Integers, Sequences, FiniteSets, TLC

(* ------------------------------ bounds --------------------------------- *)
MaxLen == 2          \* longest transcript a request carries
MaxFaults == 1       \* store / model failures injected in one behaviour

Writers == {1, 2}    \* PUT /api/sessions/:id/transcript requests
Readers == {1}       \* GET /api/sessions/:id requests
Analyzers == {1, 2}  \* POST /api/sessions/:id/analyze requests
Creators == {3, 4}   \* POST /api/sessions requests (their transactions follow the writers')
Admins == {1}        \* GET /api/admin/sessions requests

NoTx == -1           \* xmax of a row version nobody deleted
BootTx == 0          \* the committed transaction that loaded the initial rows

SessionIds == {"s1", "s9"}          \* ids a request can carry; s9 never exists
ValidMsgs == { [role |-> "assistant", content |-> "open", roleT |-> "string", contentT |-> "string"],
               [role |-> "user", content |-> "hi", roleT |-> "string", contentT |-> "string"] }
BadRoleMsg == [role |-> "system", content |-> "hi", roleT |-> "string", contentT |-> "string"]
BadContentMsg == [role |-> "user", content |-> "7", roleT |-> "string", contentT |-> "number"]

InitMsg == [role |-> "assistant", content |-> "open", roleT |-> "string", contentT |-> "string"]

SeqsUpTo(S, n) == UNION { [1..k -> S] : k \in 0..n }

ValidBodies == { [isArray |-> TRUE, items |-> m] : m \in SeqsUpTo(ValidMsgs, MaxLen) }
InvalidBodies == { [isArray |-> FALSE, items |-> <<>>],
                   [isArray |-> TRUE, items |-> <<BadRoleMsg>>],
                   [isArray |-> TRUE, items |-> <<BadContentMsg>>],
                   [isArray |-> TRUE, items |-> <<InitMsg, BadRoleMsg>>],
                   [isArray |-> TRUE, items |-> <<InitMsg, BadContentMsg>>] }
Bodies == ValidBodies \cup InvalidBodies

(* the transcript createSession stored for s1: the scenario's opening line *)
InitTranscript == << [role |-> "assistant", content |-> "open"] >>

VARIABLES
  sessions,     \* row versions of table sessions
  cr,           \* the POST sessions requests
  adm,          \* the GET admin/sessions requests
  rows,         \* row versions of table transcript_messages
  analyses,     \* rows of table analyses
  tx,           \* the PUT transcript requests
  rd,           \* the GET session requests
  an,           \* the POST analyze requests and the background run of each
  clock,        \* the store's NOW()
  proc,         \* the server process: "up" or "crashed"
  lastOk,       \* the PUT request that answered { success: true } last
  faults,       \* failures injected so far
  cv,           \* the POST conversation request
  cl,           \* the participant's page: currentTranscript, sendingMessage
  stt,          \* the POST transcribe request and the files of the uploads directory
  tts,          \* the POST tts request
  srv,          \* the listener, the pool and the signals received
  ui            \* the staff dashboard page: stored token, screens, polling timers

io == <<cv, cl, stt, tts, srv, ui>>
vars == <<sessions, cr, adm, rows, analyses, tx, rd, an, clock, proc, lastOk, faults, cv, cl, stt, tts, srv, ui>>

(* ------------------- PostgreSQL row visibility ------------------------- *)
Committed(t) ==
  \/ t = BootTx
  \/ (t \in Writers /\ tx[t].st = "committed")
  \/ (t \in Creators /\ cr[t].st = "committed")
Active(t) ==
  \/ (t \in Writers /\ tx[t].st = "active")
  \/ (t \in Creators /\ cr[t].st = "active")

\* a row version a statement of transaction me sees in a fresh snapshot
Visible(r, me) ==
  /\ Committed(r.xmin) \/ r.xmin = me
  /\ ~(r.xmax # NoTx /\ (Committed(r.xmax) \/ r.xmax = me))

\* the identity of a row version: who inserted it, and where
RowId(r) == <<r.session_id, r.xmin, r.position>>

\* rows ordered by position, as ORDER BY position returns them
RECURSIVE OrderByPosition(_)
OrderByPosition(S) ==
  IF S = {} THEN <<>>
  ELSE LET r == CHOOSE x \in S : \A y \in S : x.position <= y.position
       IN <<r>> \o OrderByPosition(S \ {r})

\* the same query at READ UNCOMMITTED as other stores have it: the inserts
\* and deletes of transactions in progress are seen
SelectTranscriptDirty(sessionId) ==
  LET msgResult == OrderByPosition({ r \in rows : /\ r.session_id = sessionId
                                                   /\ (Committed(r.xmin) \/ Active(r.xmin))
                                                   /\ ~(r.xmax # NoTx /\ (Committed(r.xmax) \/ Active(r.xmax))) })
  IN [i \in 1..Len(msgResult) |-> [role |-> msgResult[i].role, content |-> msgResult[i].content]]

\* SELECT role, content FROM transcript_messages WHERE session_id = $1 ORDER BY position
SelectTranscript(sessionId) ==
  LET msgResult == OrderByPosition({ r \in rows : r.session_id = sessionId /\ Visible(r, NoTx) })
  IN [i \in 1..Len(msgResult) |-> [role |-> msgResult[i].role, content |-> msgResult[i].content]]

\* a lookup that also sees rows of transactions in progress
SessionExistsDirty(sessionId) == \E s \in sessions : s.id = sessionId

\* SELECT id FROM sessions WHERE id = $1
SessionExists(sessionId) == \E s \in sessions : s.id = sessionId /\ Committed(s.xmin)

\* SELECT result FROM analyses WHERE session_id = $1
SelectAnalysis(sessionId) == { a \in analyses : a.session_id = sessionId }

(* -------------------------- POST /api/sessions ------------------------- *)
MaxIdLen == 2                      \* longest scenario id a request carries
IdChars == {"a", "-", "."}         \* characters of the scenario ids tried
RegexClass == {"a", "Z", "0", "_", "-"}   \* [a-zA-Z0-9_-], by representatives
NewIds == {"s2", "s3"}             \* what crypto.randomUUID() can return

\* req.body.scenarioId: missing, not a string, or a string
ScenarioInputs ==
  { [t |-> "undefined", chars |-> <<>>], [t |-> "number", chars |-> <<"a">>] } \cup
  { [t |-> "string", chars |-> x] : x \in SeqsUpTo(IdChars, MaxIdLen) }

\* the files data/scenarios/<id>.json
CatalogFiles == { <<"a">>, <<"-", "a">>, <<"a", ".">> }

\* scenario.initialMessage of the file
InitialMessage(chars) == IF chars = <<"a">> THEN "open" ELSE "hello"

\* a test without the anchors: some character of the class suffices
WellFormedUnanchored(scenarioId) ==
  /\ scenarioId.t = "string"
  /\ \E i \in 1..Len(scenarioId.chars) : scenarioId.chars[i] \in RegexClass

\* scenarioId && typeof scenarioId === 'string' && /^[a-zA-Z0-9_-]+$/.test(scenarioId)
WellFormed(scenarioId) ==
  /\ scenarioId.t = "string"
  /\ scenarioId.chars # <<>>
  /\ \A i \in 1..Len(scenarioId.chars) : scenarioId.chars[i] \in RegexClass

\* the catalog lookup ahead of the format test
LookupBeforeValidate(scenarioId) ==
  IF scenarioId.chars \notin CatalogFiles THEN [status |-> 404, accessed |-> TRUE]
  ELSE IF ~WellFormed(scenarioId) THEN [status |-> 400, accessed |-> TRUE]
  ELSE [status |-> 0, accessed |-> TRUE]

\* the format test, then fs.promises.access(scenarioPath)
ValidateScenario(scenarioId) ==
  IF ~WellFormed(scenarioId) THEN [status |-> 400, accessed |-> FALSE]
  ELSE IF scenarioId.chars \notin CatalogFiles THEN [status |-> 404, accessed |-> TRUE]
  ELSE [status |-> 0, accessed |-> TRUE]

\* both inserts on their own, committed at once
CreateAutoCommit(c) == BootTx

\* the transaction of request c (client.query('BEGIN'))
CreateTx(c) == c

\* the opening message stored as the second message
OpeningRowAtOne(sessionId, initialMessage, t) ==
  [session_id |-> sessionId, role |-> "assistant", content |-> initialMessage,
   position |-> 1, xmin |-> t, xmax |-> NoTx]

\* INSERT INTO transcript_messages ... VALUES ($1, 'assistant', scenario.initialMessage, 0)
OpeningRow(sessionId, initialMessage, t) ==
  [session_id |-> sessionId, role |-> "assistant", content |-> initialMessage,
   position |-> 0, xmin |-> t, xmax |-> NoTx]

IdleCr == [pc |-> "idle", st |-> "none", scenarioId |-> [t |-> "undefined", chars |-> <<>>],
           sessionId |-> "none", accessed |-> FALSE, status |-> 0, transcript |-> <<>>]

\* ids no session row and no request in progress carries
FreshIds == (NewIds \ { s.id : s \in sessions }) \ { cr[c].sessionId : c \in Creators }

CreateRequestFor(c, sc) ==
  /\ cr[c].pc = "idle"
  /\ cr' = [cr EXCEPT ![c] = [@ EXCEPT !.pc = "validate", !.scenarioId = sc]]
  /\ UNCHANGED <<io, adm, sessions, rows, analyses, tx, rd, an, clock, proc, lastOk, faults>>

CreateRequest(c) == \E sc \in ScenarioInputs : CreateRequestFor(c, sc)

\* format test, randomUUID, catalog lookup, the scenario file
CreateValidate(c) ==
  /\ cr[c].pc = "validate"
  /\ LET v == ValidateScenario(cr[c].scenarioId)
     IN IF v.status # 0
        THEN cr' = [cr EXCEPT ![c] = [@ EXCEPT !.pc = "done", !.status = v.status,
                                                !.accessed = v.accessed]]
        ELSE \E id \in FreshIds :
               cr' = [cr EXCEPT ![c] = [@ EXCEPT !.pc = "begin", !.sessionId = id,
                                                 !.accessed = v.accessed]]
  /\ UNCHANGED <<io, adm, sessions, rows, analyses, tx, rd, an, clock, proc, lastOk, faults>>

\* pool.connect(); BEGIN; INSERT INTO sessions (id, scenario_id); created_at defaults to NOW()
CreateInsertSession(c) ==
  /\ cr[c].pc = "begin"
  /\ sessions' = sessions \cup { [id |-> cr[c].sessionId, scenario_id |-> cr[c].scenarioId.chars,
                                   created_at |-> clock + 1, xmin |-> CreateTx(c)] }
  /\ clock' = clock + 1
  /\ cr' = [cr EXCEPT ![c] = [@ EXCEPT !.pc = "message", !.st = "active"]]
  /\ UNCHANGED <<io, adm, rows, analyses, tx, rd, an, proc, lastOk, faults>>

\* the opening message at position 0
CreateInsertMessage(c) ==
  /\ cr[c].pc = "message"
  /\ rows' = rows \cup { OpeningRow(cr[c].sessionId, InitialMessage(cr[c].scenarioId.chars), CreateTx(c)) }
  /\ cr' = [cr EXCEPT ![c] = [@ EXCEPT !.pc = "commit"]]
  /\ UNCHANGED <<io, adm, sessions, analyses, tx, rd, an, clock, proc, lastOk, faults>>

\* COMMIT; release; res.json({ sessionId, scenario, transcript })
CreateCommit(c) ==
  /\ cr[c].pc = "commit"
  /\ cr' = [cr EXCEPT ![c] = [@ EXCEPT !.pc = "done", !.st = "committed", !.status = 200,
         !.transcript = << [role |-> "assistant",
                            content |-> InitialMessage(cr[c].scenarioId.chars)] >>]]
  /\ UNCHANGED <<io, adm, sessions, rows, analyses, tx, rd, an, clock, proc, lastOk, faults>>

\* the scenario file cannot be read, or a statement throws: ROLLBACK; release; 500
CreateFail(c) ==
  /\ cr[c].pc \in {"begin", "message", "commit"}
  /\ faults < MaxFaults
  /\ faults' = faults + 1
  /\ cr' = [cr EXCEPT ![c] = [@ EXCEPT !.pc = "done", !.st = "aborted", !.status = 500]]
  /\ UNCHANGED <<io, adm, sessions, rows, analyses, tx, rd, an, clock, proc, lastOk>>

(* ------------------- PUT /api/sessions/:id/transcript ------------------ *)
\* the validation loop of the handler
ValidMessage(msg) ==
  /\ msg.roleT = "string" /\ msg.contentT = "string"
  /\ msg.role \in {"user", "assistant"}

\* a loop that stops after the first message
ValidFirstOnly(body) ==
  /\ body.isArray
  /\ Len(body.items) > 0 => ValidMessage(body.items[1])

ValidTranscript(body) ==
  /\ body.isArray
  /\ \A i \in 1..Len(body.items) : ValidMessage(body.items[i])

\* what the request asks to store
Plain(items) == [i \in 1..Len(items) |-> [role |-> items[i].role, content |-> items[i].content]]

\* every statement on its own, committed at once (no BEGIN ... COMMIT)
AutoCommit(w) == BootTx

\* the transaction the statements of request w run in (client.query('BEGIN'))
StatementTx(w) == w

\* a table without the constraint
NoConstraint(sessionId, position, me) == FALSE

\* unique constraint on (session_id, position): a live row version in the way
UniqueViolation(sessionId, position, me) ==
  \E r \in rows :
    /\ r.session_id = sessionId /\ r.position = position
    /\ Committed(r.xmin) \/ r.xmin = me
    /\ ~(r.xmax # NoTx /\ (Committed(r.xmax) \/ r.xmax = me))

\* the insert has to wait for another transaction that is still in progress
InsertBlocked(sessionId, position, me) ==
  \E r \in rows :
    /\ r.session_id = sessionId /\ r.position = position
    /\ \/ (r.xmin # me /\ Active(r.xmin))
       \/ (Committed(r.xmin) /\ r.xmax # NoTx /\ r.xmax # me /\ Active(r.xmax))

IdleTx == [pc |-> "idle", st |-> "none", sessionId |-> "s1",
           body |-> [isArray |-> TRUE, items |-> <<>>], i |-> 0, snap |-> {}, status |-> 0]

PutRequestWith(w, sid, b) ==
  /\ tx[w].pc = "idle"
  /\ tx' = [tx EXCEPT ![w] = [@ EXCEPT !.pc = "check", !.sessionId = sid, !.body = b]]
  /\ UNCHANGED <<io, cr, adm, sessions, rows, analyses, rd, an, clock, proc, lastOk, faults>>

PutRequestFor(w, sid) == \E b \in Bodies : PutRequestWith(w, sid, b)

PutRequest(w) == \E sid \in SessionIds : PutRequestFor(w, sid)

\* session lookup and validation
PutCheck(w) ==
  /\ tx[w].pc = "check"
  /\ tx' = [tx EXCEPT ![w] =
       IF ~SessionExists(tx[w].sessionId) THEN [@ EXCEPT !.pc = "done", !.status = 404]
       ELSE IF ~ValidTranscript(tx[w].body) THEN [@ EXCEPT !.pc = "done", !.status = 400]
       ELSE [@ EXCEPT !.pc = "begin"]]
  /\ UNCHANGED <<io, cr, adm, sessions, rows, analyses, rd, an, clock, proc, lastOk, faults>>

\* pool.connect(); BEGIN
PutBegin(w) ==
  /\ tx[w].pc = "begin"
  /\ tx' = [tx EXCEPT ![w] = [@ EXCEPT !.pc = "delete", !.st = "active"]]
  /\ UNCHANGED <<io, cr, adm, sessions, rows, analyses, rd, an, clock, proc, lastOk, faults>>

\* DELETE FROM transcript_messages WHERE session_id = $1: the statement's snapshot
PutDeleteStart(w) ==
  /\ tx[w].pc = "delete"
  /\ tx' = [tx EXCEPT ![w] = [@ EXCEPT !.pc = "delwait",
         !.snap = { RowId(r) : r \in { x \in rows : x.session_id = tx[w].sessionId
                                                       /\ Visible(x, StatementTx(w)) } }]]
  /\ UNCHANGED <<io, cr, adm, sessions, rows, analyses, rd, an, clock, proc, lastOk, faults>>

\* ... and its effect, once no row of the snapshot is locked by a transaction in progress:
\* rows deleted meanwhile by a committed transaction are skipped
PutDeleteFinish(w) ==
  /\ tx[w].pc = "delwait"
  /\ LET target == { r \in rows : RowId(r) \in tx[w].snap }
         hit == { r \in target : ~(r.xmax # NoTx /\ Committed(r.xmax)) }
     IN /\ \A r \in target : ~(r.xmax # NoTx /\ r.xmax # StatementTx(w) /\ Active(r.xmax))
        /\ rows' = (rows \ hit) \cup { [r EXCEPT !.xmax = StatementTx(w)] : r \in hit }
  /\ tx' = [tx EXCEPT ![w] = [@ EXCEPT !.pc = "insert", !.snap = {}, !.i = 0]]
  /\ UNCHANGED <<io, cr, adm, sessions, analyses, rd, an, clock, proc, lastOk, faults>>

\* a catch block without the ROLLBACK: the connection goes back to the pool
\* and its next user commits the open transaction
RollbackForgotten(w) == [tx[w] EXCEPT !.pc = "done", !.st = "committed", !.snap = {}, !.status = 500]

\* ROLLBACK; release; 500
Rollback(w) == [tx[w] EXCEPT !.pc = "done", !.st = "aborted", !.snap = {}, !.status = 500]

\* INSERT INTO transcript_messages ... VALUES ($1, messages[i].role, messages[i].content, i)
PutInsert(w) ==
  /\ tx[w].pc = "insert"
  /\ tx[w].i < Len(tx[w].body.items)
  /\ ~InsertBlocked(tx[w].sessionId, tx[w].i, StatementTx(w))
  /\ IF UniqueViolation(tx[w].sessionId, tx[w].i, StatementTx(w))
     THEN /\ tx' = [tx EXCEPT ![w] = Rollback(w)]
          /\ rows' = rows
     ELSE /\ rows' = rows \cup { [session_id |-> tx[w].sessionId,
                                  role |-> tx[w].body.items[tx[w].i + 1].role,
                                  content |-> tx[w].body.items[tx[w].i + 1].content,
                                  position |-> tx[w].i,
                                  xmin |-> StatementTx(w), xmax |-> NoTx] }
          /\ tx' = [tx EXCEPT ![w] = [@ EXCEPT !.i = @ + 1]]
  /\ UNCHANGED <<io, cr, adm, sessions, analyses, rd, an, clock, proc, lastOk, faults>>

\* COMMIT; release; res.json({ success: true })
PutCommit(w) ==
  /\ tx[w].pc = "insert"
  /\ tx[w].i = Len(tx[w].body.items)
  /\ tx' = [tx EXCEPT ![w] = [@ EXCEPT !.pc = "done", !.st = "committed", !.status = 200]]
  /\ lastOk' = w
  /\ UNCHANGED <<io, cr, adm, sessions, rows, analyses, rd, an, clock, proc, faults>>

\* a statement of the transaction throws (connection lost, statement timeout)
PutFail(w) ==
  /\ tx[w].pc \in {"delete", "delwait", "insert"}
  /\ faults < MaxFaults
  /\ faults' = faults + 1
  /\ tx' = [tx EXCEPT ![w] = Rollback(w)]
  /\ UNCHANGED <<io, cr, adm, sessions, rows, analyses, rd, an, clock, proc, lastOk>>

(* ------------------- POST /api/sessions/:id/analyze -------------------- *)
\* JSON values: null, an object (named by its text), the fallback { rawAnalysis: v }
Null == [t |-> "null", v |-> ""]
JsonObjectTexts == {"{\"score\":3}", "{\"score\":5}"}
JsonTexts == JsonObjectTexts \cup {"null"}

\* what anthropic.messages.create can resolve to: response.content?.[0]?.text
NoText == [hasText |-> FALSE, text |-> ""]
Responses == {NoText} \cup
  { [hasText |-> TRUE, text |-> x] : x \in JsonTexts \cup {"", "Sure! Here is the JSON"} }

\* JSON.parse: the value, or a SyntaxError
JSONParse(text) ==
  IF text \notin JsonTexts THEN [threw |-> TRUE, value |-> Null]
  ELSE IF text = "null" THEN [threw |-> FALSE, value |-> Null]
  ELSE [threw |-> FALSE, value |-> [t |-> "object", v |-> text]]

\* !responseText
Falsy(response) == ~response.hasText \/ response.text = ""

\* the try block: throws on an empty response or a SyntaxError
Parseable(response) == ~Falsy(response) /\ ~JSONParse(response.text).threw

\* without the catch: the SyntaxError leaves runAnalysis
ParseOrThrow(response) ==
  IF Parseable(response)
  THEN [threw |-> FALSE, analysis |-> JSONParse(response.text).value]
  ELSE [threw |-> TRUE, analysis |-> Null]

\* the catch that keeps no text: always the placeholder
FallbackPlaceholderOnly(response) ==
  IF Parseable(response)
  THEN [threw |-> FALSE, analysis |-> JSONParse(response.text).value]
  ELSE [threw |-> FALSE, analysis |-> [t |-> "raw", v |-> "Analysis failed to parse"]]

\* let analysis; try { ... JSON.parse ... } catch { analysis = { rawAnalysis: ... } }
ParseOrFallback(response) ==
  IF Parseable(response)
  THEN [threw |-> FALSE, analysis |-> JSONParse(response.text).value]
  ELSE [threw |-> FALSE,
        analysis |-> [t |-> "raw",
                      v |-> IF Falsy(response) THEN "Analysis failed to parse"
                            ELSE response.text]]

\* the insert without its ON CONFLICT clause
PlainInsert(table, sessionId, result, now) ==
  IF \E a \in table : a.session_id = sessionId
  THEN [error |-> "unique_violation", table |-> table]
  ELSE [error |-> "none",
        table |-> table \cup { [session_id |-> sessionId, result |-> result,
                                updated_at |-> now] }]

\* ON CONFLICT (session_id) DO NOTHING
InsertOrKeep(table, sessionId, result, now) ==
  IF \E a \in table : a.session_id = sessionId
  THEN [error |-> "none", table |-> table]
  ELSE [error |-> "none",
        table |-> table \cup { [session_id |-> sessionId, result |-> result,
                                updated_at |-> now] }]

\* an upsert that removes the row when the new result is the JSON value null
UpsertDropsNull(table, sessionId, result, now) ==
  IF result = Null
  THEN [error |-> "none", table |-> { a \in table : a.session_id # sessionId }]
  ELSE [error |-> "none",
        table |-> { a \in table : a.session_id # sessionId }
                    \cup { [session_id |-> sessionId, result |-> result, updated_at |-> now] }]

\* an upsert whose update has no WHERE: every row takes the result
UpsertEveryRow(table, sessionId, result, now) ==
  [error |-> "none",
   table |-> { [a EXCEPT !.result = result, !.updated_at = now] : a \in table }
               \cup (IF \E a \in table : a.session_id = sessionId THEN {}
                     ELSE { [session_id |-> sessionId, result |-> result, updated_at |-> now] })]

\* INSERT INTO analyses (session_id, result) VALUES ($1, $2)
\*   ON CONFLICT (session_id) DO UPDATE SET result = $2, updated_at = NOW()
\* the jsonb column holds the JSON value of JSON.stringify(analysis)
Upsert(table, sessionId, result, now) ==
  IF \E a \in table : a.session_id = sessionId
  THEN [error |-> "none",
        table |-> { IF a.session_id = sessionId
                    THEN [a EXCEPT !.result = result, !.updated_at = now]
                    ELSE a : a \in table }]
  ELSE [error |-> "none",
        table |-> table \cup { [session_id |-> sessionId, result |-> result,
                                updated_at |-> now] }]

\* the handler that starts the run and leaves the response for later
AcceptSilently(a) == [a EXCEPT !.pc = "read"]

\* res.status(202).json({ status: 'analyzing' }); runAnalysis(sessionId)
AcceptAnalyze(a) == [a EXCEPT !.pc = "read", !.status = 202]

\* no .catch: the unhandled rejection ends the process
UnhandledRejection(p) == "crashed"

\* runAnalysis(sessionId).catch(error => console.error(...)): logged, nothing else
CatchBackground(p) == p

IdleAn == [pc |-> "idle", sessionId |-> "s1", status |-> 0, transcript |-> <<>>,
           response |-> NoText, analysis |-> Null, failedAt |-> "none", wroteAt |-> 0]

AnalyzeRequestFor(q, sid) ==
  /\ proc = "up"
  /\ an[q].pc = "idle"
  /\ an' = [an EXCEPT ![q] = [@ EXCEPT !.pc = "check", !.sessionId = sid]]
  /\ UNCHANGED <<io, cr, adm, sessions, rows, analyses, tx, rd, clock, proc, lastOk, faults>>

AnalyzeRequest(q) == \E sid \in SessionIds : AnalyzeRequestFor(q, sid)

\* session lookup; 404, or the acknowledgement and the start of the background run
AnalyzeCheck(q) ==
  /\ proc = "up"
  /\ an[q].pc = "check"
  /\ an' = [an EXCEPT ![q] =
       IF ~SessionExists(an[q].sessionId) THEN [@ EXCEPT !.pc = "rejected", !.status = 404]
       ELSE AcceptAnalyze(@)]
  /\ UNCHANGED <<io, cr, adm, sessions, rows, analyses, tx, rd, clock, proc, lastOk, faults>>

\* the session lookup throws: 500, no run
AnalyzeCheckFail(q) ==
  /\ proc = "up"
  /\ an[q].pc = "check"
  /\ faults < MaxFaults
  /\ faults' = faults + 1
  /\ an' = [an EXCEPT ![q] = [@ EXCEPT !.pc = "rejected", !.status = 500]]
  /\ UNCHANGED <<io, cr, adm, sessions, rows, analyses, tx, rd, clock, proc, lastOk>>

\* runAnalysis: read the transcript
RunRead(q) ==
  /\ proc = "up"
  /\ an[q].pc = "read"
  /\ an' = [an EXCEPT ![q] = [@ EXCEPT !.pc = "model",
                                        !.transcript = SelectTranscript(an[q].sessionId)]]
  /\ UNCHANGED <<io, cr, adm, sessions, rows, analyses, tx, rd, clock, proc, lastOk, faults>>

\* runAnalysis: the model call resolves; parse or fall back
RunModel(q) ==
  /\ proc = "up"
  /\ an[q].pc = "model"
  /\ \E response \in Responses :
       LET parsed == ParseOrFallback(response)
       IN IF parsed.threw
          THEN /\ an' = [an EXCEPT ![q] = [@ EXCEPT !.pc = "failed", !.failedAt = "parse",
                                                    !.response = response]]
               /\ proc' = CatchBackground(proc)
          ELSE /\ an' = [an EXCEPT ![q] = [@ EXCEPT !.pc = "write", !.response = response,
                                                    !.analysis = parsed.analysis]]
               /\ proc' = proc
  /\ UNCHANGED <<io, cr, adm, sessions, rows, analyses, tx, rd, clock, lastOk, faults>>

\* runAnalysis: the upsert
RunWrite(q) ==
  /\ proc = "up"
  /\ an[q].pc = "write"
  /\ LET done == Upsert(analyses, an[q].sessionId, an[q].analysis, clock + 1)
     IN IF done.error = "none"
        THEN /\ analyses' = done.table
             /\ an' = [an EXCEPT ![q] = [@ EXCEPT !.pc = "done", !.wroteAt = clock + 1]]
             /\ proc' = proc
        ELSE /\ analyses' = analyses
             /\ an' = [an EXCEPT ![q] = [@ EXCEPT !.pc = "failed", !.failedAt = done.error]]
             /\ proc' = CatchBackground(proc)
  /\ clock' = clock + 1
  /\ UNCHANGED <<io, cr, adm, sessions, rows, tx, rd, lastOk, faults>>

\* the transcript read, the model call or the upsert rejects
RunFail(q) ==
  /\ proc = "up"
  /\ an[q].pc \in {"read", "model", "write"}
  /\ faults < MaxFaults
  /\ faults' = faults + 1
  /\ an' = [an EXCEPT ![q] = [@ EXCEPT !.pc = "failed", !.failedAt = an[q].pc]]
  /\ proc' = CatchBackground(proc)
  /\ UNCHANGED <<io, cr, adm, sessions, rows, analyses, tx, rd, clock, lastOk>>

(* ------------------------ GET /api/sessions/:id ------------------------ *)
\* replace transactions of the session that have executed their DELETE and not yet ended
InProgress(sessionId) ==
  { w \in Writers : tx[w].st = "active" /\ tx[w].pc = "insert" /\ tx[w].sessionId = sessionId }

IdleRd == [pc |-> "idle", sessionId |-> "s1", authorization |-> [defined |-> FALSE, v |-> <<>>],
           transcript |-> <<>>, analysis |-> Null,
           status |-> 0, after |-> 0, overlap |-> {}]

\* analysisResult.rows.length > 0 ? analysisResult.rows[0].result : null
AnalysisOf(analysisResult) ==
  IF analysisResult # {} THEN (CHOOSE a \in analysisResult : TRUE).result ELSE Null

GetRequestFor(g, sid) ==
  /\ rd[g].pc = "idle"
  /\ rd' = [rd EXCEPT ![g] = [@ EXCEPT !.pc = "check", !.sessionId = sid, !.after = lastOk]]
  /\ UNCHANGED <<io, cr, adm, sessions, rows, analyses, tx, an, clock, proc, lastOk, faults>>

GetRequest(g) == \E sid \in SessionIds : GetRequestFor(g, sid)

GetCheck(g) ==
  /\ rd[g].pc = "check"
  /\ rd' = [rd EXCEPT ![g] =
       IF ~SessionExists(rd[g].sessionId) THEN [@ EXCEPT !.pc = "done", !.status = 404]
       ELSE [@ EXCEPT !.pc = "msgs"]]
  /\ UNCHANGED <<io, cr, adm, sessions, rows, analyses, tx, an, clock, proc, lastOk, faults>>

GetMessages(g) ==
  /\ rd[g].pc = "msgs"
  /\ rd' = [rd EXCEPT ![g] = [@ EXCEPT !.pc = "analysis",
                                        !.transcript = SelectTranscript(rd[g].sessionId),
                                        !.overlap = InProgress(rd[g].sessionId)]]
  /\ UNCHANGED <<io, cr, adm, sessions, rows, analyses, tx, an, clock, proc, lastOk, faults>>

GetAnalysis(g) ==
  /\ rd[g].pc = "analysis"
  /\ rd' = [rd EXCEPT ![g] = [@ EXCEPT !.pc = "done", !.status = 200,
                                        !.analysis = AnalysisOf(SelectAnalysis(rd[g].sessionId))]]
  /\ UNCHANGED <<io, cr, adm, sessions, rows, analyses, tx, an, clock, proc, lastOk, faults>>

\* the caller polls again
GetAgain(g) ==
  /\ rd[g].pc = "done"
  /\ rd' = [rd EXCEPT ![g] = IdleRd]
  /\ UNCHANGED <<io, cr, adm, sessions, rows, analyses, tx, an, clock, proc, lastOk, faults>>

(* ----------------------- GET /api/admin/sessions ----------------------- *)
\* strings are sequences of segments; the text 'Bearer ' is one segment
MaxTokLen == 2
TokenChars == {"a", "b"}
Undefined == [defined |-> FALSE, v |-> <<>>]
Str(v) == [defined |-> TRUE, v |-> v]
\* values of process.env.ADMIN_TOKEN: unset, empty, a token
EnvTokens == {Undefined} \cup { Str(v) : v \in SeqsUpTo(TokenChars, MaxTokLen) }
\* values of req.headers.authorization: absent, or any text
AuthHeaders == {Undefined} \cup { Str(v) : v \in SeqsUpTo(TokenChars \cup {"Bearer "}, MaxTokLen + 1) }

\* String.prototype.replace with a string pattern: the first occurrence only
Replace(v, pattern) ==
  IF \E i \in 1..Len(v) : v[i] = pattern
  THEN LET k == CHOOSE i \in 1..Len(v) : v[i] = pattern /\ \A j \in 1..(i - 1) : v[j] # pattern
       IN SubSeq(v, 1, k - 1) \o SubSeq(v, k + 1, Len(v))
  ELSE v

\* req.headers.authorization?.replace('Bearer ', '')
Provided(authorization) ==
  IF authorization.defined THEN Str(Replace(authorization.v, "Bearer ")) ELSE Undefined

\* a middleware that lets every request pass when no token is configured
AuthDefaultOpen(adminToken, authorization) ==
  IF ~adminToken.defined \/ adminToken.v = <<>> THEN 0
  ELSE IF Provided(authorization) # adminToken THEN 401
  ELSE 0

\* requireAdminAuth: the status it answers, 0 for next()
RequireAdminAuth(adminToken, authorization) ==
  IF ~adminToken.defined \/ adminToken.v = <<>> THEN 503
  ELSE IF Provided(authorization) # adminToken THEN 401
  ELSE 0

IdleAdm == [pc |-> "idle", adminToken |-> Undefined, authorization |-> Undefined,
            status |-> 0, listed |-> {}, result |-> <<>>]

AdminRequestWith(a, h) ==
  /\ adm[a].pc = "idle"
  /\ adm' = [adm EXCEPT ![a] = [@ EXCEPT !.pc = "auth", !.authorization = h]]
  /\ UNCHANGED <<io, cr, sessions, rows, analyses, tx, rd, an, clock, proc, lastOk, faults>>

AdminRequest(a) == \E h \in AuthHeaders : AdminRequestWith(a, h)

\* LENGTH(content) of the message texts of the model
CharLength(content) ==
  CASE content = "c100" -> 100
    [] content = "c101" -> 101
    [] content = "open" -> 4
    [] content = "hello" -> 5
    [] content = "hi" -> 2
    [] content = "7" -> 1

\* a text of the result: the first chars characters of text, '...' appended or not
SummaryLimit == 100
NoMessages == [text |-> "No messages", chars |-> 11, ellipsis |-> FALSE]

\* a CASE that truncates from the limit on
SummaryAtLimit(content) ==
  IF CharLength(content) >= SummaryLimit
  THEN [text |-> content, chars |-> SummaryLimit, ellipsis |-> TRUE]
  ELSE [text |-> content, chars |-> CharLength(content), ellipsis |-> FALSE]

\* CASE WHEN LENGTH(content) > 100 THEN SUBSTRING(content FROM 1 FOR 100) || '...' ELSE content END
Summary(content) ==
  IF CharLength(content) > SummaryLimit
  THEN [text |-> content, chars |-> SummaryLimit, ellipsis |-> TRUE]
  ELSE [text |-> content, chars |-> CharLength(content), ellipsis |-> FALSE]

\* LEFT JOIN LATERAL (SELECT content ... WHERE role = 'user' ORDER BY position LIMIT 1),
\* COALESCE(..., 'No messages')
FirstUserMsg(sessionId) ==
  LET users == { r \in rows : r.session_id = sessionId /\ r.role = "user" /\ Visible(r, NoTx) }
  IN IF users = {} THEN NoMessages
     ELSE Summary((CHOOSE r \in users : \A o \in users : r.position <= o.position).content)

\* ORDER BY s.created_at DESC
RECURSIVE OrderByCreatedDesc(_)
OrderByCreatedDesc(S) ==
  IF S = {} THEN <<>>
  ELSE LET s == CHOOSE x \in S : \A y \in S : y.created_at <= x.created_at
       IN <<s>> \o OrderByCreatedDesc(S \ {s})

SelectListing ==
  LET ordered == OrderByCreatedDesc({ x \in sessions : Committed(x.xmin) })
  IN [i \in 1..Len(ordered) |-> [id |-> ordered[i].id, created_at |-> ordered[i].created_at,
                                   summary |-> FirstUserMsg(ordered[i].id)]]

AdminAuth(a) ==
  /\ adm[a].pc = "auth"
  /\ LET status == RequireAdminAuth(adm[a].adminToken, adm[a].authorization)
     IN adm' = [adm EXCEPT ![a] = IF status # 0 THEN [@ EXCEPT !.pc = "done", !.status = status]
                                  ELSE [@ EXCEPT !.pc = "list"]]
  /\ UNCHANGED <<io, cr, sessions, rows, analyses, tx, rd, an, clock, proc, lastOk, faults>>

\* SELECT s.id, ... FROM sessions s ...; res.json(result.rows)
AdminList(a) ==
  /\ adm[a].pc = "list"
  /\ adm' = [adm EXCEPT ![a] = [@ EXCEPT !.pc = "done", !.status = 200,
                !.listed = { s.id : s \in { x \in sessions : Committed(x.xmin) } },
                !.result = SelectListing]]
  /\ UNCHANGED <<io, cr, sessions, rows, analyses, tx, rd, an, clock, proc, lastOk, faults>>

\* the query throws: 500
AdminListFail(a) ==
  /\ adm[a].pc = "list"
  /\ faults < MaxFaults
  /\ faults' = faults + 1
  /\ adm' = [adm EXCEPT ![a] = [@ EXCEPT !.pc = "done", !.status = 500]]
  /\ UNCHANGED <<io, cr, sessions, rows, analyses, tx, rd, an, clock, proc, lastOk>>

\* the next request of the same caller
AdminAgain(a) ==
  /\ adm[a].pc = "done"
  /\ adm' = [adm EXCEPT ![a] = [IdleAdm EXCEPT !.adminToken = adm[a].adminToken]]
  /\ UNCHANGED <<io, cr, sessions, rows, analyses, tx, rd, an, clock, proc, lastOk, faults>>

(* ------------------------ POST /api/conversation ----------------------- *)
MaxBlocks == 2
MaxContext == 4
\* the content blocks of an answer of the model: text blocks
Answers == SeqsUpTo({ [type |-> "text", text |-> t] : t \in {"", "ok"} }, MaxBlocks)

\* request bodies: the fields as JSON values
ConvMessages == { [t |-> "undefined", v |-> ""], [t |-> "string", v |-> ""],
                  [t |-> "string", v |-> "hi"], [t |-> "number", v |-> "7"] }
ConvScenarios == { [t |-> "undefined", systemPromptT |-> "undefined", characterNameT |-> "undefined"],
                   [t |-> "object", systemPromptT |-> "string", characterNameT |-> "string"],
                   [t |-> "object", systemPromptT |-> "undefined", characterNameT |-> "string"],
                   [t |-> "object", systemPromptT |-> "string", characterNameT |-> "number"] }
ConvTranscripts == { [t |-> "undefined", items |-> <<>>], [t |-> "array", items |-> <<>>],
                     [t |-> "array", items |-> InitTranscript], [t |-> "string", items |-> <<>>] }
ConvBodies == [transcript : ConvTranscripts, scenario : ConvScenarios, message : ConvMessages]

\* the first check only
ConvValidateMessage(body) ==
  IF body.message.t # "string" \/ body.message.v = "" THEN 400 ELSE 0

\* the two checks of the handler: 400 or 0
ConvValidate(body) ==
  IF body.message.t # "string" \/ body.message.v = "" THEN 400
  ELSE IF body.scenario.t # "object" \/ body.scenario.systemPromptT # "string"
            \/ body.scenario.characterNameT # "string" THEN 400
  ELSE 0

\* a handler that reads the history from the store instead of the request
ContextFromStore(transcript, message) ==
  SelectTranscript("s1") \o << [role |-> "user", content |-> message] >>

\* messages = []; transcript.forEach(msg => messages.push(msg)); messages.push({ role: 'user', content: message })
Context(transcript, message) ==
  transcript \o << [role |-> "user", content |-> message] >>

\* an answer without text is an error
ReplyTextStrict(content) ==
  IF Len(content) > 0 /\ content[1].text # "" THEN [status |-> 200, response |-> content[1].text]
  ELSE [status |-> 500, response |-> ""]

\* res.json({ response: response.content?.[0]?.text || '', role: 'assistant' })
ReplyText(content) ==
  IF Len(content) > 0 /\ content[1].text # "" THEN [status |-> 200, response |-> content[1].text]
  ELSE [status |-> 200, response |-> ""]

IdleCv == [pc |-> "idle", from |-> "none",
           body |-> [transcript |-> [t |-> "undefined", items |-> <<>>],
                     scenario |-> [t |-> "undefined", systemPromptT |-> "undefined",
                                   characterNameT |-> "undefined"],
                     message |-> [t |-> "undefined", v |-> ""]],
           messages |-> <<>>, calls |-> 0, answered |-> FALSE, content |-> <<>>,
           status |-> 0, response |-> ""]

\* a request of any caller
ConvRequest ==
  /\ cv.pc = "idle"
  /\ \E b \in ConvBodies : cv' = [IdleCv EXCEPT !.pc = "validate", !.from = "api", !.body = b]
  /\ UNCHANGED <<ui, cl, stt, tts, srv, sessions, cr, adm, rows, analyses, tx, rd, an, clock, proc, lastOk, faults>>

\* the checks, the context, and the call of anthropic.messages.create
ConvCall ==
  /\ cv.pc = "validate"
  /\ cv' = IF ConvValidate(cv.body) # 0
            THEN [cv EXCEPT !.pc = "done", !.status = ConvValidate(cv.body)]
            ELSE IF cv.body.transcript.t = "string"
            \* a non-empty string has a length and no forEach: TypeError, caught
            THEN [cv EXCEPT !.pc = "done", !.status = 500]
            ELSE [cv EXCEPT !.pc = "await", !.calls = @ + 1,
                            !.messages = Context(cv.body.transcript.items, cv.body.message.v)]
  /\ UNCHANGED <<ui, cl, stt, tts, srv, sessions, cr, adm, rows, analyses, tx, rd, an, clock, proc, lastOk, faults>>

\* the model answers
ConvReply ==
  /\ cv.pc = "await"
  /\ \E content \in Answers :
       cv' = [cv EXCEPT !.pc = "done", !.answered = TRUE, !.content = content,
                        !.status = ReplyText(content).status,
                        !.response = ReplyText(content).response]
  /\ UNCHANGED <<ui, cl, stt, tts, srv, sessions, cr, adm, rows, analyses, tx, rd, an, clock, proc, lastOk, faults>>

\* the call rejects (transport or service error): catch, 500
ConvCallFail ==
  /\ cv.pc = "await"
  /\ faults < MaxFaults
  /\ faults' = faults + 1
  /\ cv' = [cv EXCEPT !.pc = "done", !.status = 500]
  /\ UNCHANGED <<ui, cl, stt, tts, srv, sessions, cr, adm, rows, analyses, tx, rd, an, clock, proc, lastOk>>

\* the response of a request of another caller is delivered
ConvDone ==
  /\ cv.pc = "done" /\ cv.from = "api"
  /\ cv' = IdleCv
  /\ UNCHANGED <<ui, cl, stt, tts, srv, sessions, cr, adm, rows, analyses, tx, rd, an, clock, proc, lastOk, faults>>

(* ---------------------- the participant's page ------------------------- *)
\* after startSession: currentSessionId s1, currentTranscript the transcript of the response
\* error: what the catch block of the last sendMessage logged; last: what the last invocation did
IdleCl == [pc |-> "idle", currentTranscript |-> InitTranscript, sendingMessage |-> FALSE, w |-> 0,
           error |-> "none", last |-> "none"]

\* a finally block that leaves the flag as it is
FinallyKeeps(flag) == flag

\* finally { sendingMessage = false }
Finally(flag) == FALSE

\* currentScenario: the scenario file
CurrentScenario == [t |-> "object", systemPromptT |-> "string", characterNameT |-> "string"]

\* sendMessage(text): push the participant message, POST conversation
SendMessage ==
  /\ ~cl.sendingMessage
  /\ cv.pc = "idle"
  /\ Len(cl.currentTranscript) < MaxContext
  /\ \E w \in Writers : tx[w].pc = "idle"
  /\ \E text \in {"hi"} :
       /\ cl' = [cl EXCEPT !.pc = "conversation", !.sendingMessage = TRUE,
                           !.error = "none", !.last = "started",
                           !.currentTranscript = Append(@, [role |-> "user", content |-> text])]
       /\ cv' = [IdleCv EXCEPT !.pc = "validate", !.from = "page",
                   !.body = [transcript |-> [t |-> "array", items |-> cl.currentTranscript],
                             scenario |-> CurrentScenario,
                             message |-> [t |-> "string", v |-> text]]]
  /\ UNCHANGED <<ui, stt, tts, srv, sessions, cr, adm, rows, analyses, tx, rd, an, clock, proc, lastOk, faults>>

\* sendMessage(text) while another is in progress: if (sendingMessage) return
SendMessageBusy ==
  /\ cl.sendingMessage
  /\ cl' = [cl EXCEPT !.last = "ignored"]
  /\ UNCHANGED <<ui, cv, stt, tts, srv, sessions, cr, adm, rows, analyses, tx, rd, an, clock, proc, lastOk, faults>>

\* the reply arrived: push it, PUT the transcript
SendMessageReply ==
  /\ cl.pc = "conversation"
  /\ cv.pc = "done" /\ cv.from = "page" /\ cv.status = 200
  /\ \E w \in Writers :
       /\ tx[w].pc = "idle"
       /\ \A v \in Writers : tx[v].pc = "idle" => w <= v
       /\ LET t == Append(cl.currentTranscript, [role |-> "assistant", content |-> cv.response])
          IN /\ cl' = [cl EXCEPT !.pc = "put", !.currentTranscript = t, !.w = w]
             /\ tx' = [tx EXCEPT ![w] = [@ EXCEPT !.pc = "check", !.sessionId = "s1",
                   !.body = [isArray |-> TRUE,
                             items |-> [i \in 1..Len(t) |-> [role |-> t[i].role, content |-> t[i].content,
                                                              roleT |-> "string", contentT |-> "string"]]]]]
  /\ cv' = IdleCv
  /\ UNCHANGED <<ui, stt, tts, srv, sessions, cr, adm, rows, analyses, rd, an, clock, proc, lastOk, faults>>

\* !response.ok: throw, catch, finally
SendMessageError ==
  /\ cl.pc = "conversation"
  /\ cv.pc = "done" /\ cv.from = "page" /\ cv.status # 200
  /\ cl' = [cl EXCEPT !.pc = "idle", !.sendingMessage = Finally(@),
                      !.error = "Conversation request failed"]
  /\ cv' = IdleCv
  /\ UNCHANGED <<ui, stt, tts, srv, sessions, cr, adm, rows, analyses, tx, rd, an, clock, proc, lastOk, faults>>

\* the PUT answered (its status is not looked at): speak, finally
SendMessageDone ==
  /\ cl.pc = "put"
  /\ tx[cl.w].pc = "done"
  /\ cl' = [cl EXCEPT !.pc = "idle", !.sendingMessage = Finally(@)]
  /\ UNCHANGED <<ui, cv, stt, tts, srv, sessions, cr, adm, rows, analyses, tx, rd, an, clock, proc, lastOk, faults>>

\* a fetch rejects (the connection is lost before the response arrives): catch, finally
SendMessageThrow ==
  /\ \/ cl.pc = "conversation" /\ cv.pc = "done" /\ cv.from = "page"
     \/ cl.pc = "put" /\ tx[cl.w].pc = "done"
  /\ faults < MaxFaults
  /\ faults' = faults + 1
  /\ cl' = [cl EXCEPT !.pc = "idle", !.sendingMessage = Finally(@), !.error = "Failed to fetch"]
  /\ cv' = IF cl.pc = "conversation" THEN IdleCv ELSE cv
  /\ UNCHANGED <<ui, stt, tts, srv, sessions, cr, adm, rows, analyses, tx, rd, an, clock, proc, lastOk>>

(* ------------------------- POST /api/transcribe ------------------------ *)
MaxUploads == 3

\* a handler that looks at the engine before the file
SttEngineFirst(hasFile, whisperAvailable) ==
  IF ~whisperAvailable THEN 503
  ELSE IF ~hasFile THEN 400
  ELSE 0

\* the two checks before the conversion: 400, 503 or 0
SttPrecheck(hasFile, whisperAvailable) ==
  IF ~hasFile THEN 400
  ELSE IF ~whisperAvailable THEN 503
  ELSE 0

\* the finally block: unlink req.file.path, and wavPath when it is set
Cleanup(files, n, wavPath) ==
  (files \ {<<n, "upload">>}) \ (IF wavPath # "null" THEN {<<n, wavPath>>} ELSE {})

\* files holds the files of the uploads directory: <<request, "upload">> the
\* file multer stored, <<request, "wav">> the output of ffmpeg
IdleStt == [pc |-> "idle", whisperAvailable |-> FALSE, n |-> 0, hasFile |-> FALSE, files |-> {},
            wavPath |-> "null", conversions |-> 0, runs |-> 0, status |-> 0, text |-> ""]

\* upload.single('audio'): the file, when the request has one, is stored
SttRequest ==
  /\ stt.pc = "idle"
  /\ stt.n < MaxUploads
  /\ \E hasFile \in BOOLEAN :
       stt' = [stt EXCEPT !.pc = "check", !.n = @ + 1, !.hasFile = hasFile, !.wavPath = "null",
                          !.conversions = 0, !.runs = 0, !.status = 0, !.text = "",
                          !.files = IF hasFile THEN @ \cup {<<stt.n + 1, "upload">>} ELSE @]
  /\ UNCHANGED <<ui, cv, cl, tts, srv, sessions, cr, adm, rows, analyses, tx, rd, an, clock, proc, lastOk, faults>>

\* no file: 400; no engine: unlink the upload, 503; else convertToWav is started
SttCheck ==
  /\ stt.pc = "check"
  /\ LET status == SttPrecheck(stt.hasFile, stt.whisperAvailable)
     IN stt' = IF status = 400 THEN [stt EXCEPT !.pc = "done", !.status = 400]
               ELSE IF status = 503
               THEN [stt EXCEPT !.pc = "done", !.status = 503, !.files = @ \ {<<stt.n, "upload">>}]
               ELSE [stt EXCEPT !.pc = "convert", !.conversions = @ + 1]
  /\ UNCHANGED <<ui, cv, cl, tts, srv, sessions, cr, adm, rows, analyses, tx, rd, an, clock, proc, lastOk, faults>>

\* ffmpeg wrote the output: wavPath is assigned, runWhisperCpp is started
SttConverted ==
  /\ stt.pc = "convert"
  /\ stt' = [stt EXCEPT !.pc = "whisper", !.wavPath = "wav", !.runs = @ + 1,
                         !.files = @ \cup {<<stt.n, "wav">>}]
  /\ UNCHANGED <<ui, cv, cl, tts, srv, sessions, cr, adm, rows, analyses, tx, rd, an, clock, proc, lastOk, faults>>

\* ffmpeg ends with an error, with or without an output file it had begun:
\* convertToWav rejects, wavPath stays null; catch, 500, finally
SttConvertFail ==
  /\ stt.pc = "convert"
  /\ \E partial \in BOOLEAN :
       stt' = [stt EXCEPT !.pc = "done", !.status = 500,
                 !.files = Cleanup(IF partial THEN @ \cup {<<stt.n, "wav">>} ELSE @, stt.n, stt.wavPath)]
  /\ UNCHANGED <<ui, cv, cl, tts, srv, sessions, cr, adm, rows, analyses, tx, rd, an, clock, proc, lastOk, faults>>

\* whisper.cpp printed the text, possibly nothing: 200, finally
SttTranscribed ==
  /\ stt.pc = "whisper"
  /\ \E text \in {"", "hi"} :
       stt' = [stt EXCEPT !.pc = "done", !.status = 200, !.text = text,
                          !.files = Cleanup(@, stt.n, stt.wavPath)]
  /\ UNCHANGED <<ui, cv, cl, tts, srv, sessions, cr, adm, rows, analyses, tx, rd, an, clock, proc, lastOk, faults>>

\* whisper.cpp fails or is killed after the timeout: catch, 500, finally
SttWhisperFail ==
  /\ stt.pc = "whisper"
  /\ stt' = [stt EXCEPT !.pc = "done", !.status = 500, !.files = Cleanup(@, stt.n, stt.wavPath)]
  /\ UNCHANGED <<ui, cv, cl, tts, srv, sessions, cr, adm, rows, analyses, tx, rd, an, clock, proc, lastOk, faults>>

\* the next request
SttNext ==
  /\ stt.pc = "done"
  /\ stt' = [stt EXCEPT !.pc = "idle"]
  /\ UNCHANGED <<ui, cv, cl, tts, srv, sessions, cr, adm, rows, analyses, tx, rd, an, clock, proc, lastOk, faults>>
(* ---------------------------- POST /api/tts ---------------------------- *)
MaxSpeaks == 3
TtsLimit == 5000
\* req.body.text: its type and, for a string, its length
TtsTexts == { [t |-> "undefined", length |-> 0], [t |-> "number", length |-> 0] } \cup
            { [t |-> "string", length |-> n] : n \in {0, 1, TtsLimit - 1, TtsLimit, TtsLimit + 1} }

\* a check that holds what its message says: under 5000 characters
TtsValidUnder(text) == text.t = "string" /\ text.length > 0 /\ text.length < TtsLimit

\* !(!text || typeof text !== 'string' || text.length > 5000)
TtsValid(text) == text.t = "string" /\ text.length > 0 /\ text.length <= TtsLimit

IdleTts == [pc |-> "idle", apiKey |-> FALSE, n |-> 0, text |-> [t |-> "undefined", length |-> 0],
            readKey |-> FALSE, calls |-> 0, status |-> 0]

TtsRequest ==
  /\ tts.pc = "idle"
  /\ tts.n < MaxSpeaks
  /\ \E text \in TtsTexts :
       tts' = [tts EXCEPT !.pc = "check", !.n = @ + 1, !.text = text, !.readKey = FALSE,
                          !.calls = 0, !.status = 0]
  /\ UNCHANGED <<ui, cv, cl, stt, srv, sessions, cr, adm, rows, analyses, tx, rd, an, clock, proc, lastOk, faults>>

\* the text check, then process.env.ELEVENLABS_API_KEY, then axios.post
TtsCheck ==
  /\ tts.pc = "check"
  /\ tts' = IF ~TtsValid(tts.text) THEN [tts EXCEPT !.pc = "done", !.status = 400]
             ELSE IF ~tts.apiKey THEN [tts EXCEPT !.pc = "done", !.status = 500, !.readKey = TRUE]
             ELSE [tts EXCEPT !.pc = "await", !.readKey = TRUE, !.calls = @ + 1]
  /\ UNCHANGED <<ui, cv, cl, stt, srv, sessions, cr, adm, rows, analyses, tx, rd, an, clock, proc, lastOk, faults>>

\* the voice service returned the audio
TtsAudio ==
  /\ tts.pc = "await"
  /\ tts' = [tts EXCEPT !.pc = "done", !.status = 200]
  /\ UNCHANGED <<ui, cv, cl, stt, srv, sessions, cr, adm, rows, analyses, tx, rd, an, clock, proc, lastOk, faults>>

\* axios.post rejects: catch, 500
TtsCallFail ==
  /\ tts.pc = "await"
  /\ tts' = [tts EXCEPT !.pc = "done", !.status = 500]
  /\ UNCHANGED <<ui, cv, cl, stt, srv, sessions, cr, adm, rows, analyses, tx, rd, an, clock, proc, lastOk, faults>>

\* the next request
TtsNext ==
  /\ tts.pc = "done"
  /\ tts' = [tts EXCEPT !.pc = "idle"]
  /\ UNCHANGED <<ui, cv, cl, stt, srv, sessions, cr, adm, rows, analyses, tx, rd, an, clock, proc, lastOk, faults>>
(* --------------------------- graceful shutdown ------------------------- *)
Signals == {"SIGTERM", "SIGINT"}

\* app.listen; the pool of db.js
IdleSrv == [listening |-> TRUE, callbacks |-> 0, signals |-> {}, pool |-> "open",
            ends |-> 0, rejected |-> 0]

\* requests whose response has not been sent: their connections are open
InFlight == { q \in Analyzers : an[q].pc = "check" }

\* the listener accepts the request
AnalyzeAccepted(q) == srv.listening /\ AnalyzeRequest(q)

\* the INSERT of the run, pool.query on the open pool (its SELECT was issued
\* by the handler's own tick, before any 'close')
RunWritePool(q) == srv.pool = "open" /\ RunWrite(q)

\* pool.query after pool.end(): rejected, 'Cannot use a pool after calling end on the pool'
RunOnEndedPool(q) ==
  /\ proc = "up"
  /\ srv.pool = "ended"
  /\ an[q].pc = "write"
  /\ an' = [an EXCEPT ![q] = [@ EXCEPT !.pc = "failed", !.failedAt = "pool"]]
  /\ srv' = [srv EXCEPT !.rejected = @ + 1]
  /\ proc' = CatchBackground(proc)
  /\ UNCHANGED <<ui, cv, cl, stt, tts, sessions, cr, adm, rows, analyses, tx, rd, clock, lastOk, faults>>

\* process.on(sig): server.close(callback) stops the listener and registers the callback
Signal(sig) ==
  /\ proc = "up"
  /\ sig \notin srv.signals
  /\ srv' = [srv EXCEPT !.signals = @ \cup {sig}, !.listening = FALSE, !.callbacks = @ + 1]
  /\ UNCHANGED <<ui, cv, cl, stt, tts, sessions, cr, adm, rows, analyses, tx, rd, an, clock, proc, lastOk, faults>>

\* 'close': no connection is open; every registered callback calls db.pool.end()
ServerClosed ==
  /\ proc = "up"
  /\ ~srv.listening /\ srv.callbacks > 0
  /\ InFlight = {}
  /\ srv' = [srv EXCEPT !.callbacks = 0, !.pool = "ended", !.ends = @ + srv.callbacks]
  /\ UNCHANGED <<ui, cv, cl, stt, tts, sessions, cr, adm, rows, analyses, tx, rd, an, clock, proc, lastOk, faults>>

\* the promise of pool.end() resolves: process.exit(0)
ProcessExit ==
  /\ proc = "up"
  /\ srv.pool = "ended"
  /\ proc' = "exited"
  /\ UNCHANGED <<ui, cv, cl, stt, tts, srv, sessions, cr, adm, rows, analyses, tx, rd, an, clock, lastOk, faults>>

(* --------------------------- specification ----------------------------- *)
(* ------------------ the staff dashboard (admin.js) --------------------- *)
MaxInFlight == 1     \* get-session fetches of the dashboard outstanding per session
MaxLeaked == 1       \* interval timers per session whose handle was overwritten
MaxPolls == 61       \* get-session requests issued by timer ticks of one session
MaxTicks == 3        \* ... while sessions are clicked, responses overtake and the user logs out

MAX_POLL_ATTEMPTS == 60

Listed == {"s1", "s2"}                \* the sessions of the rendered list
TokenInputs == {"", "a"}              \* input.value.trim()
ListingOutcomes == {200, 401, 503, 500, 0}   \* status of GET admin/sessions; 0: the fetch rejects
DetailOutcomes == {"pending", "analysis", "failed"}   \* GET sessions/:id: analysis null, analysis, not ok

\* timer: the session of the interval analysisPollTimer refers to, or "null";
\* leaked: the intervals still set whose handle analysisPollTimer no longer holds;
\* polled: get-session requests issued by ticks so far
IdleUi == [pc |-> "init", token |-> "", shown |-> FALSE, status |-> -1, message |-> "",
           timer |-> "null", leaked |-> [s \in Listed |-> 0], inflight |-> [s \in Listed |-> 0],
           pollAttempts |-> 0, polled |-> 0, notice |-> FALSE, detail |-> "none"]

\* a page that clears the token on 401 and 503 only
StoredAfterKnownErrors(status, token) == IF status \in {401, 503} THEN "" ELSE token

\* what sessionStorage holds when the attempt with this token has finished
StoredAfter(status, token) == IF status = 200 THEN token ELSE ""

\* init(): a stored token is tried automatically, else the login screen
UiInit ==
  /\ ui.pc = "init"
  /\ ui' = [ui EXCEPT !.pc = IF ui.token # "" THEN "autologin" ELSE "login"]
  /\ UNCHANGED <<cv, cl, stt, tts, srv, sessions, cr, adm, rows, analyses, tx, rd, an, clock, proc, lastOk, faults>>

\* init(): the listing answered, or the fetch rejected
UiAutoLogin ==
  /\ ui.pc = "autologin"
  /\ \E status \in ListingOutcomes :
       ui' = [ui EXCEPT !.pc = IF status = 200 THEN "dashboard" ELSE "login",
                        !.status = status,
                        !.shown = (status = 200),
                        !.token = StoredAfter(status, @)]
  /\ UNCHANGED <<cv, cl, stt, tts, srv, sessions, cr, adm, rows, analyses, tx, rd, an, clock, proc, lastOk, faults>>

\* submit of the login form
UiLoginSubmit ==
  /\ ui.pc = "login"
  /\ \E token \in TokenInputs :
       ui' = IF token = ""
             THEN [ui EXCEPT !.message = "Please enter a token."]
             ELSE [ui EXCEPT !.pc = "signing", !.token = token]
  /\ UNCHANGED <<cv, cl, stt, tts, srv, sessions, cr, adm, rows, analyses, tx, rd, an, clock, proc, lastOk, faults>>

\* the listing answered the login attempt, or the fetch rejected
UiLoginResponse ==
  /\ ui.pc = "signing"
  /\ \E status \in ListingOutcomes :
       ui' = [ui EXCEPT !.pc = IF status = 200 THEN "dashboard" ELSE "login",
                        !.status = status,
                        !.shown = (status = 200),
                        !.token = StoredAfter(status, @),
                        !.message = CASE status = 200 -> @
                                      [] status = 401 -> "Invalid token. Please try again."
                                      [] status = 503 -> "Admin access is not configured on the server."
                                      [] OTHER -> "Connection error. Please try again."]
  /\ UNCHANGED <<cv, cl, stt, tts, srv, sessions, cr, adm, rows, analyses, tx, rd, an, clock, proc, lastOk, faults>>

\* logout(): clearAdminToken, clearInterval(analysisPollTimer), showLoginScreen()
UiLogout ==
  /\ ui.pc = "dashboard"
  /\ ui' = [ui EXCEPT !.pc = "login", !.token = "", !.shown = FALSE, !.timer = "null", !.message = ""]
  /\ UNCHANGED <<cv, cl, stt, tts, srv, sessions, cr, adm, rows, analyses, tx, rd, an, clock, proc, lastOk, faults>>

\* click on a session of the list: loadSession(id) clears the timer it knows and fetches
UiClick(id) ==
  /\ ui.pc = "dashboard"
  /\ ui.inflight[id] < MaxInFlight
  /\ ui' = [ui EXCEPT !.timer = "null", !.inflight[id] = @ + 1]
  /\ UNCHANGED <<cv, cl, stt, tts, srv, sessions, cr, adm, rows, analyses, tx, rd, an, clock, proc, lastOk, faults>>

\* the callback of setInterval, run by the interval set for session id
PollTick(id) ==
  IF ui.pollAttempts + 1 >= MAX_POLL_ATTEMPTS
  THEN [ui EXCEPT !.pollAttempts = @ + 1, !.timer = "null", !.notice = TRUE]
  ELSE [ui EXCEPT !.pollAttempts = @ + 1, !.timer = "null", !.inflight[id] = @ + 1, !.polled = @ + 1]

\* the interval analysisPollTimer refers to fires
UiTick ==
  /\ ui.timer # "null"
  /\ ui.polled < MaxPolls
  /\ ui.inflight[ui.timer] < MaxInFlight
  /\ ui' = PollTick(ui.timer)
  /\ UNCHANGED <<cv, cl, stt, tts, srv, sessions, cr, adm, rows, analyses, tx, rd, an, clock, proc, lastOk, faults>>

\* an interval whose handle was overwritten fires: it clears the current one and stays set
UiTickLeaked(id) ==
  /\ ui.leaked[id] > 0
  /\ ui.polled < MaxPolls
  /\ ui.inflight[id] < MaxInFlight
  /\ ui' = PollTick(id)
  /\ UNCHANGED <<cv, cl, stt, tts, srv, sessions, cr, adm, rows, analyses, tx, rd, an, clock, proc, lastOk, faults>>

\* loadSession(id) after its fetch: no analysis yet starts a new interval
UiLoaded(id) ==
  /\ ui.inflight[id] > 0
  /\ \E outcome \in DetailOutcomes :
       IF outcome = "pending"
       THEN /\ ui.timer # "null" => ui.leaked[ui.timer] < MaxLeaked
            /\ ui' = [ui EXCEPT !.inflight[id] = @ - 1, !.detail = "progress", !.pollAttempts = 0,
                                !.timer = id,
                                !.leaked = IF ui.timer = "null" THEN @
                                           ELSE [@ EXCEPT ![ui.timer] = @ + 1]]
       ELSE ui' = [ui EXCEPT !.inflight[id] = @ - 1, !.detail = outcome]
  /\ UNCHANGED <<cv, cl, stt, tts, srv, sessions, cr, adm, rows, analyses, tx, rd, an, clock, proc, lastOk, faults>>

\* ... for a session whose analysis never arrives
UiLoadedPending(id) ==
  /\ ui.inflight[id] > 0
  /\ ui.timer = "null"
  /\ ui' = [ui EXCEPT !.inflight[id] = @ - 1, !.detail = "progress", !.pollAttempts = 0, !.timer = id]
  /\ UNCHANGED <<cv, cl, stt, tts, srv, sessions, cr, adm, rows, analyses, tx, rd, an, clock, proc, lastOk, faults>>

\* the first ticks
UiTickSoon == ui.polled < MaxTicks /\ UiTick
UiTickLeakedSoon(id) == ui.polled < MaxTicks /\ UiTickLeaked(id)

\* the first click on a session after the dashboard came up
UiClickOnce(id) == ui.detail = "none" /\ (\A s \in Listed : ui.inflight[s] = 0) /\ UiClick(id)

InitRows == { [session_id |-> "s1", role |-> InitTranscript[i].role,
               content |-> InitTranscript[i].content, position |-> i - 1,
               xmin |-> BootTx, xmax |-> NoTx] : i \in 1..Len(InitTranscript) }

Init ==
  /\ sessions = { [id |-> "s1", scenario_id |-> <<"a">>, created_at |-> 0, xmin |-> BootTx] }
  /\ cr = [c \in Creators |-> IdleCr]
  /\ adm = [a \in Admins |-> IdleAdm]
  /\ rows = InitRows
  /\ analyses = {}
  /\ tx = [w \in Writers |-> IdleTx]
  /\ rd = [g \in Readers |-> IdleRd]
  /\ an = [q \in Analyzers |-> IdleAn]
  /\ clock = 0
  /\ proc = "up"
  /\ lastOk = 0
  /\ faults = 0
  /\ cv = IdleCv
  /\ cl = IdleCl
  /\ stt = IdleStt
  /\ tts = IdleTts
  /\ srv = IdleSrv
  /\ ui = IdleUi

Next ==
  \/ \E w \in Writers : PutRequest(w)
  \/ \E w \in Writers : PutCheck(w)
  \/ \E w \in Writers : PutBegin(w)
  \/ \E w \in Writers : PutDeleteStart(w)
  \/ \E w \in Writers : PutDeleteFinish(w)
  \/ \E w \in Writers : PutInsert(w)
  \/ \E w \in Writers : PutCommit(w)
  \/ \E w \in Writers : PutFail(w)
  \/ \E g \in Readers : GetRequest(g)
  \/ \E g \in Readers : GetCheck(g)
  \/ \E g \in Readers : GetMessages(g)
  \/ \E g \in Readers : GetAnalysis(g)

Spec == Init /\ [][Next]_vars

\* the analysis pipeline and the get-session requests that poll for its result
NextAnalysis ==
  \/ \E q \in Analyzers : AnalyzeRequest(q)
  \/ \E q \in Analyzers : AnalyzeCheck(q)
  \/ \E q \in Analyzers : AnalyzeCheckFail(q)
  \/ \E q \in Analyzers : RunRead(q)
  \/ \E q \in Analyzers : RunModel(q)
  \/ \E q \in Analyzers : RunWrite(q)
  \/ \E q \in Analyzers : RunFail(q)
  \/ \E g \in Readers : GetRequest(g)
  \/ \E g \in Readers : GetCheck(g)
  \/ \E g \in Readers : GetMessages(g)
  \/ \E g \in Readers : GetAnalysis(g)
  \/ \E g \in Readers : GetAgain(g)

SpecAnalysis == Init /\ [][NextAnalysis]_vars

\* get-session for any id a session can have
GetRequestAny(g) == \E sid \in SessionIds \cup NewIds : GetRequestFor(g, sid)

\* session creation and the get-session requests that read the new sessions
NextCreate ==
  \/ \E c \in Creators : CreateRequest(c)
  \/ \E c \in Creators : CreateValidate(c)
  \/ \E c \in Creators : CreateInsertSession(c)
  \/ \E c \in Creators : CreateInsertMessage(c)
  \/ \E c \in Creators : CreateCommit(c)
  \/ \E c \in Creators : CreateFail(c)
  \/ \E g \in Readers : GetRequestAny(g)
  \/ \E g \in Readers : GetCheck(g)
  \/ \E g \in Readers : GetMessages(g)
  \/ \E g \in Readers : GetAnalysis(g)

SpecCreate == Init /\ [][NextCreate]_vars

\* the privileged listing, for every value of ADMIN_TOKEN the process can start with
InitEnv(e) ==
  /\ sessions = { [id |-> "s1", scenario_id |-> <<"a">>, created_at |-> 0, xmin |-> BootTx] }
  /\ cr = [c \in Creators |-> IdleCr]
  /\ adm = [a \in Admins |-> [IdleAdm EXCEPT !.adminToken = e]]
  /\ rows = InitRows
  /\ analyses = {}
  /\ tx = [w \in Writers |-> IdleTx]
  /\ rd = [g \in Readers |-> IdleRd]
  /\ an = [q \in Analyzers |-> IdleAn]
  /\ clock = 0
  /\ proc = "up"
  /\ lastOk = 0
  /\ faults = 0
  /\ cv = IdleCv
  /\ cl = IdleCl
  /\ stt = IdleStt
  /\ tts = IdleTts
  /\ srv = IdleSrv
  /\ ui = IdleUi

InitAdmin == \E e \in EnvTokens : InitEnv(e)

NextAdmin ==
  \/ \E a \in Admins : AdminRequest(a)
  \/ \E a \in Admins : AdminAuth(a)
  \/ \E a \in Admins : AdminList(a)
  \/ \E a \in Admins : AdminListFail(a)
  \/ \E a \in Admins : AdminAgain(a)

SpecAdmin == InitAdmin /\ [][NextAdmin]_vars

\* the per-session staff view: loadSession sends authHeaders() to get-session
ViewHeaders == {Undefined} \cup { Str(<<"Bearer ", ch>>) : ch \in TokenChars }

StaffViewRequest(g) ==
  /\ rd[g].pc = "idle"
  /\ \E sid \in SessionIds, h \in ViewHeaders :
       rd' = [rd EXCEPT ![g] = [@ EXCEPT !.pc = "check", !.sessionId = sid, !.authorization = h,
                                          !.after = lastOk]]
  /\ UNCHANGED <<io, cr, adm, sessions, rows, analyses, tx, an, clock, proc, lastOk, faults>>

NextStaffView ==
  \/ \E g \in Readers : StaffViewRequest(g)
  \/ \E g \in Readers : GetCheck(g)
  \/ \E g \in Readers : GetMessages(g)
  \/ \E g \in Readers : GetAnalysis(g)
  \/ \E g \in Readers : GetAgain(g)

SpecStaffView == InitAdmin /\ [][NextStaffView]_vars

\* every handler of the session API together: one request of each kind, for
\* the id of a session being created and an id no session has
OneOf(S) == { CHOOSE x \in S : TRUE }
KnownScenario == [t |-> "string", chars |-> <<"a">>]
TargetIds == {"s9"} \cup OneOf(NewIds)

PutRequestAny(w) == \E sid \in TargetIds : PutRequestFor(w, sid)
AnalyzeRequestAny(q) == \E sid \in TargetIds : AnalyzeRequestFor(q, sid)
GetRequestSome(g) == \E sid \in TargetIds : GetRequestFor(g, sid)
CreateRequestKnown(c) == CreateRequestFor(c, KnownScenario)

NextAll ==
  \/ \E c \in OneOf(Creators) : CreateRequestKnown(c)
  \/ \E c \in OneOf(Creators) : CreateValidate(c)
  \/ \E c \in OneOf(Creators) : CreateInsertSession(c)
  \/ \E c \in OneOf(Creators) : CreateInsertMessage(c)
  \/ \E c \in OneOf(Creators) : CreateCommit(c)
  \/ \E c \in OneOf(Creators) : CreateFail(c)
  \/ \E w \in OneOf(Writers) : PutRequestAny(w)
  \/ \E w \in OneOf(Writers) : PutCheck(w)
  \/ \E w \in OneOf(Writers) : PutBegin(w)
  \/ \E w \in OneOf(Writers) : PutDeleteStart(w)
  \/ \E w \in OneOf(Writers) : PutDeleteFinish(w)
  \/ \E w \in OneOf(Writers) : PutInsert(w)
  \/ \E w \in OneOf(Writers) : PutCommit(w)
  \/ \E w \in OneOf(Writers) : PutFail(w)
  \/ \E q \in OneOf(Analyzers) : AnalyzeRequestAny(q)
  \/ \E q \in OneOf(Analyzers) : AnalyzeCheck(q)
  \/ \E q \in OneOf(Analyzers) : AnalyzeCheckFail(q)
  \/ \E q \in OneOf(Analyzers) : RunRead(q)
  \/ \E q \in OneOf(Analyzers) : RunModel(q)
  \/ \E q \in OneOf(Analyzers) : RunWrite(q)
  \/ \E q \in OneOf(Analyzers) : RunFail(q)
  \/ \E g \in OneOf(Readers) : GetRequestSome(g)
  \/ \E g \in OneOf(Readers) : GetCheck(g)
  \/ \E g \in OneOf(Readers) : GetMessages(g)
  \/ \E g \in OneOf(Readers) : GetAnalysis(g)

SpecAll == Init /\ [][NextAll]_vars

\* transcription, for both outcomes of checkWhisperAvailability at start
InitTranscribe ==
  /\ sessions = { [id |-> "s1", scenario_id |-> <<"a">>, created_at |-> 0, xmin |-> BootTx] }
  /\ cr = [c \in Creators |-> IdleCr]
  /\ adm = [a \in Admins |-> IdleAdm]
  /\ rows = InitRows
  /\ analyses = {}
  /\ tx = [w \in Writers |-> IdleTx]
  /\ rd = [g \in Readers |-> IdleRd]
  /\ an = [q \in Analyzers |-> IdleAn]
  /\ clock = 0
  /\ proc = "up"
  /\ lastOk = 0
  /\ faults = 0
  /\ cv = IdleCv
  /\ cl = IdleCl
  /\ \E available \in BOOLEAN : stt = [IdleStt EXCEPT !.whisperAvailable = available]
  /\ tts = IdleTts
  /\ srv = IdleSrv
  /\ ui = IdleUi

NextTranscribe ==
  \/ SttRequest
  \/ SttCheck
  \/ SttConverted
  \/ SttConvertFail
  \/ SttTranscribed
  \/ SttWhisperFail
  \/ SttNext

SpecTranscribe == InitTranscribe /\ [][NextTranscribe]_vars

\* speech, with and without ELEVENLABS_API_KEY in the environment
InitSpeak ==
  /\ sessions = { [id |-> "s1", scenario_id |-> <<"a">>, created_at |-> 0, xmin |-> BootTx] }
  /\ cr = [c \in Creators |-> IdleCr]
  /\ adm = [a \in Admins |-> IdleAdm]
  /\ rows = InitRows
  /\ analyses = {}
  /\ tx = [w \in Writers |-> IdleTx]
  /\ rd = [g \in Readers |-> IdleRd]
  /\ an = [q \in Analyzers |-> IdleAn]
  /\ clock = 0
  /\ proc = "up"
  /\ lastOk = 0
  /\ faults = 0
  /\ cv = IdleCv
  /\ cl = IdleCl
  /\ stt = IdleStt
  /\ \E key \in BOOLEAN : tts = [IdleTts EXCEPT !.apiKey = key]
  /\ srv = IdleSrv
  /\ ui = IdleUi

NextSpeak ==
  \/ TtsRequest
  \/ TtsCheck
  \/ TtsAudio
  \/ TtsCallFail
  \/ TtsNext

SpecSpeak == InitSpeak /\ [][NextSpeak]_vars

\* the analysis pipeline while the process is told to stop
NextShutdown ==
  \/ \E q \in Analyzers : AnalyzeAccepted(q)
  \/ \E q \in Analyzers : AnalyzeCheck(q)
  \/ \E q \in Analyzers : AnalyzeCheckFail(q)
  \/ \E q \in Analyzers : RunRead(q)
  \/ \E q \in Analyzers : RunModel(q)
  \/ \E q \in Analyzers : RunWritePool(q)
  \/ \E q \in Analyzers : RunFail(q)
  \/ \E q \in Analyzers : RunOnEndedPool(q)
  \/ \E sig \in Signals : Signal(sig)
  \/ ServerClosed
  \/ ProcessExit

SpecShutdown == Init /\ [][NextShutdown]_vars

\* conversation turns of the page and of other callers, with the PUT of each turn
NextConversation ==
  \/ ConvRequest
  \/ ConvCall
  \/ ConvReply
  \/ ConvCallFail
  \/ ConvDone
  \/ SendMessage
  \/ SendMessageReply
  \/ SendMessageError
  \/ SendMessageDone
  \/ \E w \in Writers : PutCheck(w)
  \/ \E w \in Writers : PutBegin(w)
  \/ \E w \in Writers : PutDeleteStart(w)
  \/ \E w \in Writers : PutDeleteFinish(w)
  \/ \E w \in Writers : PutInsert(w)
  \/ \E w \in Writers : PutCommit(w)
  \/ \E w \in Writers : PutFail(w)

SpecConversation == Init /\ [][NextConversation]_vars

\* the life of session s1 while another session is created: a replace of s1
\* and analysis runs of both
PutRequestTurn(w) ==
  PutRequestWith(w, "s1",
    [isArray |-> TRUE,
     items |-> <<InitMsg, [role |-> "user", content |-> "hi", roleT |-> "string", contentT |-> "string"]>>])

\* analysis of s1 or of the session being created
AnalyzeRequestLive(q) == \E sid \in {"s1"} \cup OneOf(NewIds) : AnalyzeRequestFor(q, sid)

NextLifecycle ==
  \/ \E c \in OneOf(Creators) : CreateRequestKnown(c)
  \/ \E c \in OneOf(Creators) : CreateValidate(c)
  \/ \E c \in OneOf(Creators) : CreateInsertSession(c)
  \/ \E c \in OneOf(Creators) : CreateInsertMessage(c)
  \/ \E c \in OneOf(Creators) : CreateCommit(c)
  \/ \E c \in OneOf(Creators) : CreateFail(c)
  \/ \E w \in OneOf(Writers) : PutRequestTurn(w)
  \/ \E w \in OneOf(Writers) : PutCheck(w)
  \/ \E w \in OneOf(Writers) : PutBegin(w)
  \/ \E w \in OneOf(Writers) : PutDeleteStart(w)
  \/ \E w \in OneOf(Writers) : PutDeleteFinish(w)
  \/ \E w \in OneOf(Writers) : PutInsert(w)
  \/ \E w \in OneOf(Writers) : PutCommit(w)
  \/ \E w \in OneOf(Writers) : PutFail(w)
  \/ \E q \in Analyzers : AnalyzeRequestLive(q)
  \/ \E q \in Analyzers : AnalyzeCheck(q)
  \/ \E q \in Analyzers : AnalyzeCheckFail(q)
  \/ \E q \in Analyzers : RunRead(q)
  \/ \E q \in Analyzers : RunModel(q)
  \/ \E q \in Analyzers : RunWrite(q)
  \/ \E q \in Analyzers : RunFail(q)

SpecLifecycle == Init /\ [][NextLifecycle]_vars

\* the dashboard page opened with or without a token in sessionStorage
InitDashboard ==
  /\ sessions = { [id |-> "s1", scenario_id |-> <<"a">>, created_at |-> 0, xmin |-> BootTx] }
  /\ cr = [c \in Creators |-> IdleCr]
  /\ adm = [a \in Admins |-> IdleAdm]
  /\ rows = InitRows
  /\ analyses = {}
  /\ tx = [w \in Writers |-> IdleTx]
  /\ rd = [g \in Readers |-> IdleRd]
  /\ an = [q \in Analyzers |-> IdleAn]
  /\ clock = 0
  /\ proc = "up"
  /\ lastOk = 0
  /\ faults = 0
  /\ cv = IdleCv
  /\ cl = IdleCl
  /\ stt = IdleStt
  /\ tts = IdleTts
  /\ srv = IdleSrv
  /\ \E token \in TokenInputs : ui = [IdleUi EXCEPT !.token = token]

NextDashboard ==
  \/ UiInit
  \/ UiAutoLogin
  \/ UiLoginSubmit
  \/ UiLoginResponse
  \/ UiLogout
  \/ \E id \in Listed : UiClick(id)
  \/ UiTickSoon
  \/ \E id \in Listed : UiTickLeakedSoon(id)
  \/ \E id \in Listed : UiLoaded(id)

SpecDashboard == InitDashboard /\ [][NextDashboard]_vars

\* one session is opened once and its analysis never arrives
NextPolling ==
  \/ UiInit
  \/ UiAutoLogin
  \/ UiLoginSubmit
  \/ UiLoginResponse
  \/ \E id \in Listed : UiClickOnce(id)
  \/ UiTick
  \/ \E id \in Listed : UiLoadedPending(id)

SpecPolling == InitDashboard /\ [][NextPolling]_vars

\* the participant's page alone: its turns and the save of each
NextPage ==
  \/ SendMessage
  \/ SendMessageBusy
  \/ SendMessageReply
  \/ SendMessageError
  \/ SendMessageThrow
  \/ SendMessageDone
  \/ ConvCall
  \/ ConvReply
  \/ ConvCallFail
  \/ \E w \in Writers : PutCheck(w)
  \/ \E w \in Writers : PutBegin(w)
  \/ \E w \in Writers : PutDeleteStart(w)
  \/ \E w \in Writers : PutDeleteFinish(w)
  \/ \E w \in Writers : PutInsert(w)
  \/ \E w \in Writers : PutCommit(w)
  \/ \E w \in Writers : PutFail(w)

SpecPage == Init /\ [][NextPage]_vars

\* the listing of a signed-in admin while sessions are created and transcripts replaced
UserMsg(content) == [role |-> "user", content |-> content, roleT |-> "string", contentT |-> "string"]
ListingBodies == { [isArray |-> TRUE, items |-> m] :
                     m \in { <<>>, <<InitMsg>>, <<InitMsg, UserMsg("hi")>>, <<InitMsg, UserMsg("c100")>>,
                             <<InitMsg, UserMsg("c101")>>, <<UserMsg("c101"), UserMsg("hi")>> } }

PutRequestListed(w) == \E sid \in {"s1"} \cup NewIds, b \in ListingBodies : PutRequestWith(w, sid, b)

\* authHeaders() with the configured token in sessionStorage
AdminSignedIn(a) == AdminRequestWith(a, Str(<<"Bearer ">> \o adm[a].adminToken.v))

InitListing == InitEnv(Str(<<"a">>))

NextListing ==
  \/ \E c \in Creators : CreateRequestKnown(c)
  \/ \E c \in Creators : CreateValidate(c)
  \/ \E c \in Creators : CreateInsertSession(c)
  \/ \E c \in Creators : CreateInsertMessage(c)
  \/ \E c \in Creators : CreateCommit(c)
  \/ \E c \in Creators : CreateFail(c)
  \/ \E w \in OneOf(Writers) : PutRequestListed(w)
  \/ \E w \in OneOf(Writers) : PutCheck(w)
  \/ \E w \in OneOf(Writers) : PutBegin(w)
  \/ \E w \in OneOf(Writers) : PutDeleteStart(w)
  \/ \E w \in OneOf(Writers) : PutDeleteFinish(w)
  \/ \E w \in OneOf(Writers) : PutInsert(w)
  \/ \E w \in OneOf(Writers) : PutCommit(w)
  \/ \E w \in OneOf(Writers) : PutFail(w)
  \/ \E a \in Admins : AdminSignedIn(a)
  \/ \E a \in Admins : AdminAuth(a)
  \/ \E a \in Admins : AdminList(a)
  \/ \E a \in Admins : AdminListFail(a)
  \/ \E a \in Admins : AdminAgain(a)

SpecListing == InitListing /\ [][NextListing]_vars

\* the event loop runs every pending continuation of a background run and of a
\* request; the caller keeps polling get-session
FairSpecAnalysis ==
  /\ SpecAnalysis
  /\ \A q \in Analyzers : WF_vars(AnalyzeCheck(q)) /\ WF_vars(RunRead(q))
                           /\ WF_vars(RunModel(q)) /\ WF_vars(RunWrite(q))
  /\ \A g \in Readers : /\ \A sid \in SessionIds : SF_vars(GetRequestFor(g, sid))
                         /\ WF_vars(GetCheck(g)) /\ WF_vars(GetMessages(g))
                         /\ WF_vars(GetAnalysis(g)) /\ WF_vars(GetAgain(g))

(* ----------------------------- properties ------------------------------ *)
\* the committed row versions of a session
CommittedRows(sessionId) == { r \in rows : r.session_id = sessionId /\ Visible(r, NoTx) }

\* the transcript is the one transaction t wrote, whole
WrittenBy(sessionId, t) ==
  /\ \A r \in CommittedRows(sessionId) : r.xmin = t
  /\ SelectTranscript(sessionId) =
       IF t = BootTx THEN InitTranscript ELSE Plain(tx[t].body.items)

\* C1: whatever two replaceTranscript calls of a session do, sequentially or
\* concurrently, the committed transcript of the session is the pre-existing
\* one or the complete payload of one committed call, never rows of both.
C1_NoMixture ==
  \A sid \in { x \in SessionIds : SessionExists(x) } :
    \/ WrittenBy(sid, BootTx)
    \/ \E w \in Writers : tx[w].st = "committed" /\ tx[w].sessionId = sid /\ WrittenBy(sid, w)

\* two different payloads met in overlapping transactions: one committed, the
\* other ran into the first one's rows
C1_Witness ==
  \E a, b \in Writers :
    /\ tx[a].st = "committed" /\ tx[b].st = "aborted" /\ faults = 0
    /\ tx[a].sessionId = tx[b].sessionId
    /\ tx[a].body # tx[b].body
    /\ Len(tx[a].body.items) = 2

\* C2: the transcript a get-session request returns is a complete committed
\* transcript, the one before or the one after a concurrent replace, never the
\* emptied or half inserted rows of a replace in progress.
C2_ReaderSeesWhole ==
  \A g \in Readers :
    (rd[g].pc \in {"analysis", "done"} /\ rd[g].status # 404) =>
      \/ rd[g].transcript = InitTranscript
      \/ \E w \in Writers : /\ tx[w].st = "committed"
                             /\ tx[w].sessionId = rd[g].sessionId
                             /\ rd[g].transcript = Plain(tx[w].body.items)

\* the read happened while a replace had deleted the rows and not yet committed
C2_Witness ==
  \E g \in Readers :
    /\ rd[g].pc = "done" /\ rd[g].status = 200
    /\ rd[g].overlap # {}
    /\ rd[g].transcript = InitTranscript

\* C3: a successful replaceTranscript(M) followed immediately by get-session
\* returns M: the request began after the success marker of the replace, and
\* no other replace has answered since.
C3_RoundTrip ==
  [][\A g \in Readers :
       ( /\ rd[g].pc = "msgs" /\ rd'[g].pc = "analysis"
         /\ rd[g].after # 0 /\ lastOk = rd[g].after
         /\ tx[rd[g].after].sessionId = rd[g].sessionId )
       => rd'[g].transcript = Plain(tx[rd[g].after].body.items)]_vars

(* ------------------------ analysis properties -------------------------- *)
\* the background runs of a session that executed their upsert
Wrote(sessionId) == { q \in Analyzers : an[q].pc = "done" /\ an[q].sessionId = sessionId }

\* the run whose upsert was executed last
LastRun(sessionId) ==
  CHOOSE q \in Wrote(sessionId) : \A o \in Wrote(sessionId) : an[o].wroteAt <= an[q].wroteAt

\* C4: at most one Analysis row per session, however many analysis runs wrote,
\* and no background run ends in a uniqueness conflict on the analyses table.
C4_OneAnalysisRow ==
  /\ \A sid \in SessionIds : Cardinality(SelectAnalysis(sid)) <= 1
  /\ \A q \in Analyzers : an[q].failedAt # "unique_violation"

\* two runs of one session have both executed their upsert
C4_Witness ==
  /\ \A q \in Analyzers : an[q].pc = "done" /\ an[q].sessionId = "s1"
  /\ Cardinality(SelectAnalysis("s1")) = 1

\* C5: once runs of a session have written, the stored row holds the result of
\* the run whose upsert was executed last, with the timestamp of that write,
\* which is later than the timestamp of every earlier write.
C5_LastWriteWins ==
  \A sid \in SessionIds :
    Wrote(sid) # {} =>
      /\ SelectAnalysis(sid) # {}
      /\ \A a \in SelectAnalysis(sid) :
           /\ a.result = an[LastRun(sid)].analysis
           /\ a.updated_at = an[LastRun(sid)].wroteAt
           /\ \A o \in Wrote(sid) \ {LastRun(sid)} : an[o].wroteAt < a.updated_at

\* two runs with different results have written; the row is the later one's
C5_Witness ==
  /\ Wrote("s1") = Analyzers
  /\ an[1].analysis # an[2].analysis
  /\ an[1].wroteAt = 2 /\ an[2].wroteAt = 1
  /\ \E a \in analyses : a.session_id = "s1" /\ a.result = an[1].analysis /\ a.updated_at = 2

\* C6: the 202 acknowledgement of an analyze request is sent before its
\* background run performs any step, and no outcome of the run alters it.
C6_AckFirst ==
  /\ [](\A q \in Analyzers :
         an[q].pc \in {"read", "model", "write", "done", "failed"} => an[q].status = 202)
  /\ [][\A q \in Analyzers : an[q].status # 0 => an'[q].status = an[q].status]_vars

\* one acknowledged run has failed and another has written
C6_Witness ==
  \E q, o \in Analyzers :
    /\ an[q].pc = "failed" /\ an[q].status = 202
    /\ an[o].pc = "done" /\ an[o].status = 202

\* C7: a background run that fails at the transcript read, the model call or
\* the write leaves the analyses table as it was, starts no other run, leaves
\* the process up and the 202 of its request untouched; it has written
\* nothing, and it is not run again.
C7_FailureWritesNothing ==
  /\ [](\A q \in Analyzers : an[q].pc = "failed" => an[q].wroteAt = 0 /\ proc = "up")
  /\ [][\A q \in Analyzers :
         /\ (an[q].pc # "failed" /\ an'[q].pc = "failed") =>
               /\ analyses' = analyses
               /\ an'[q].status = an[q].status /\ an[q].status = 202
               /\ \A o \in Analyzers \ {q} : an'[o] = an[o]
         /\ an[q].pc = "failed" => an'[q] = an[q]]_vars

\* a run failed at the write while the row of an earlier run is in place
C7_Witness ==
  \E q, o \in Analyzers :
    /\ an[q].pc = "failed" /\ an[q].failedAt = "write" /\ an[q].sessionId = "s1"
    /\ an[o].pc = "done" /\ an[o].sessionId = "s1"
    /\ \E a \in analyses : a.session_id = "s1" /\ a.result = an[o].analysis

\* C8: a model response that is not parseable, or carries no text, does not
\* fail the run: the run goes on to the upsert, and once that is executed an
\* Analysis row exists for the session.
C8_FallbackPersists ==
  \A q \in Analyzers :
    /\ an[q].failedAt # "parse"
    /\ (an[q].pc = "done" /\ ~Parseable(an[q].response)) => SelectAnalysis(an[q].sessionId) # {}

\* runs with an unparseable text and with no text at all have both written
C8_Witness ==
  \E q, o \in Analyzers :
    /\ an[q].pc = "done" /\ an[q].response.hasText /\ ~Parseable(an[q].response)
    /\ an[o].pc = "done" /\ ~an[o].response.hasText
    /\ SelectAnalysis(an[q].sessionId) # {} /\ SelectAnalysis(an[o].sessionId) # {}

\* the row a run wrote, while it is the latest write
RowOf(q) == { a \in analyses : a.session_id = an[q].sessionId /\ a.updated_at = an[q].wroteAt }

\* C9 as stated: whenever parsing fails, the persisted record is
\* { rawAnalysis: text } with exactly the text the model returned, for every
\* response.
C9_RawTextAlways ==
  \A q \in Analyzers :
    (an[q].pc = "done" /\ ~Parseable(an[q].response)) =>
      \A a \in RowOf(q) : a.result = [t |-> "raw", v |-> an[q].response.text]

\* C9, amended: whenever parsing fails, the persisted record is
\* { rawAnalysis: text } with exactly the text the model returned when that
\* text is not empty, and { rawAnalysis: 'Analysis failed to parse' } when the
\* response carries no text or an empty text.
C9_RawTextOrPlaceholder ==
  \A q \in Analyzers :
    (an[q].pc = "done" /\ ~Parseable(an[q].response)) =>
      \A a \in RowOf(q) :
        a.result = [t |-> "raw",
                    v |-> IF an[q].response.hasText /\ an[q].response.text # ""
                          THEN an[q].response.text ELSE "Analysis failed to parse"]

\* a text that is not JSON has been persisted under rawAnalysis, and so has
\* the placeholder of an empty text
C9_Witness ==
  \E q, o \in Analyzers :
    /\ an[q].pc = "done" /\ an[q].response = [hasText |-> TRUE, text |-> "Sure! Here is the JSON"]
    /\ an[q].sessionId = "s1" /\ an[q].wroteAt = 2
    /\ RowOf(q) = { [session_id |-> "s1", updated_at |-> 2,
                      result |-> [t |-> "raw", v |-> "Sure! Here is the JSON"]] }
    /\ an[o].pc = "done" /\ an[o].response = [hasText |-> TRUE, text |-> ""]

\* C10: a triggered run whose read, model call and write succeed leads to a
\* get-session of that session that returns a non-null analysis; and while no
\* run of a session has written (all failed, or none triggered) the session
\* has no analysis.
C10_EventuallyAnalysis ==
  /\ \A q \in Analyzers :
       (an[q].pc = "done") ~>
         (\E g \in Readers : /\ rd[g].pc = "done" /\ rd[g].status = 200
                              /\ rd[g].sessionId = an[q].sessionId
                              /\ rd[g].analysis # Null)
  /\ [](\A sid \in SessionIds : Wrote(sid) = {} => SelectAnalysis(sid) = {})

(* ------------------------ createSession properties --------------------- *)
\* a scenario id that is missing, not a string, empty, or has a character
\* outside [A-Za-z0-9_-]
Malformed(scenarioId) ==
  \/ scenarioId.t # "string"
  \/ Len(scenarioId.chars) = 0
  \/ \E i \in 1..Len(scenarioId.chars) : scenarioId.chars[i] \notin RegexClass

\* what request c has put into the store, committed or not
WrittenByCreate(c) == { s \in sessions : s.xmin = c } \cup { r \in rows : r.xmin = c }

\* C11: a successful createSession for a well-formed scenario id of the catalog
\* leaves the new session with exactly one stored message: role assistant, the
\* scenario's opening message, position 0; the transcript of the response
\* equals the stored one.
C11_OpeningAtZero ==
  [][\A c \in Creators :
       (cr[c].status = 0 /\ cr'[c].status = 200) =>
         /\ ~Malformed(cr[c].scenarioId) /\ cr[c].scenarioId.chars \in CatalogFiles
         /\ { [role |-> r.role, content |-> r.content, position |-> r.position] :
               r \in CommittedRows(cr[c].sessionId)' }
              = { [role |-> "assistant", content |-> InitialMessage(cr[c].scenarioId.chars),
                   position |-> 0] }
         /\ Cardinality(CommittedRows(cr[c].sessionId)') = 1
         /\ cr'[c].transcript = SelectTranscript(cr[c].sessionId)']_vars

\* sessions of two different scenarios have been created
C11_Witness ==
  /\ \A c \in Creators : cr[c].status = 200
  /\ \E c, d \in Creators : /\ cr[c].scenarioId.chars = <<"a">>
                              /\ cr[d].scenarioId.chars = <<"-", "a">>
                              /\ SelectTranscript(cr[d].sessionId)
                                   = << [role |-> "assistant", content |-> "hello"] >>

\* C12: createSession is all-or-nothing: a request that fails leaves neither
\* its session row nor its opening message in the committed store, and a
\* reader never finds a created session without its position-0 message.
C12_AllOrNothing ==
  /\ \A c \in Creators :
       cr[c].status = 500 =>
         /\ ~SessionExists(cr[c].sessionId)
         /\ CommittedRows(cr[c].sessionId) = {}
  /\ \A sid \in NewIds : SessionExists(sid) => \E r \in CommittedRows(sid) : r.position = 0
  /\ \A g \in Readers :
       (rd[g].pc \in {"analysis", "done"} /\ rd[g].status # 404) => rd[g].transcript # <<>>

\* a request failed after both inserts, and a reader has read a created session
C12_Witness ==
  /\ \E c \in Creators :
       /\ cr[c].status = 500
       /\ \E s \in sessions : s.xmin = c
       /\ \E r \in rows : r.xmin = c
  /\ \E g \in Readers : rd[g].status = 200 /\ rd[g].sessionId \in NewIds

\* C13: a malformed scenario id is answered 400, the catalog is not consulted,
\* and the request writes nothing.
C13_MalformedRejected ==
  \A c \in Creators :
    (cr[c].pc \notin {"idle", "validate"} /\ Malformed(cr[c].scenarioId)) =>
      /\ cr[c].status = 400
      /\ ~cr[c].accessed
      /\ WrittenByCreate(c) = {}

\* the id of an existing file with a character outside the class, and a missing id
C13_Witness ==
  \E c, d \in Creators :
    /\ cr[c].status = 400 /\ cr[c].scenarioId = [t |-> "string", chars |-> <<"a", ".">>]
    /\ cr[d].status = 400 /\ cr[d].scenarioId.t = "undefined"

\* C14: a well-formed scenario id that is not in the catalog is answered 404
\* and nothing is written; a malformed id is answered 400, never 404.
C14_NotFoundAfterFormat ==
  \A c \in Creators :
    cr[c].pc \notin {"idle", "validate"} =>
      /\ (~Malformed(cr[c].scenarioId) /\ cr[c].scenarioId.chars \notin CatalogFiles) =>
            (cr[c].status = 404 /\ WrittenByCreate(c) = {})
      /\ Malformed(cr[c].scenarioId) => cr[c].status = 400
      /\ cr[c].status = 404 => ~Malformed(cr[c].scenarioId)

\* an unknown well-formed id, and a malformed id no file has
C14_Witness ==
  \E c, d \in Creators :
    /\ cr[c].status = 404 /\ cr[c].scenarioId = [t |-> "string", chars |-> <<"a", "a">>]
    /\ cr[d].status = 400 /\ cr[d].scenarioId = [t |-> "string", chars |-> <<".">>]

(* ---------------------- replaceTranscript properties -------------------- *)
\* a payload that is not a list, or has a message whose role is not one of the
\* two allowed roles or whose content is not text
InvalidPayload(body) ==
  \/ ~body.isArray
  \/ \E i \in 1..Len(body.items) :
       \/ body.items[i].roleT # "string"
       \/ body.items[i].role \notin {"user", "assistant"}
       \/ body.items[i].contentT # "string"

\* rows request w has inserted or marked deleted, committed or not
TouchedBy(w) == { r \in rows : r.xmin = w \/ r.xmax = w }

\* C15: replaceTranscript on an existing session with an invalid payload is
\* answered 400 and executes no delete and no insert, even when the first
\* messages of the list are valid: the stored transcript stays as it was.
C15_InvalidPayloadRejected ==
  /\ [](\A w \in Writers :
         (tx[w].pc \notin {"idle", "check"} /\ tx[w].sessionId = "s1"
            /\ InvalidPayload(tx[w].body)) =>
           /\ tx[w].status = 400
           /\ tx[w].st = "none"
           /\ TouchedBy(w) = {})
  /\ [][\A w \in Writers :
         (tx[w].status = 0 /\ tx'[w].status = 400) =>
           /\ InvalidPayload(tx[w].body)
           /\ rows' = rows
           /\ SelectTranscript(tx[w].sessionId)' = SelectTranscript(tx[w].sessionId)]_vars

\* a list whose first message is valid and whose second is not was rejected
\* while the session held a transcript another request had stored
C15_Witness ==
  \E w, v \in Writers :
    /\ tx[w].status = 400
    /\ tx[w].body = [isArray |-> TRUE, items |-> <<InitMsg, BadRoleMsg>>]
    /\ tx[v].status = 200 /\ Len(tx[v].body.items) = 2
    /\ SelectTranscript("s1") = Plain(tx[v].body.items)

\* C17: when a statement of a replaceTranscript transaction fails (the DELETE,
\* an INSERT or the COMMIT), the transaction is rolled back and the caller gets
\* 500, never a success marker; the stored transcript is what it was: nothing
\* the request deleted or inserted is ever part of it.
C17_FailureRollsBack ==
  /\ [](\A w \in Writers :
         tx[w].status = 500 =>
           /\ tx[w].st = "aborted"
           /\ lastOk # w
           /\ \A r \in TouchedBy(w) : Visible(r, NoTx) <=> (r.xmin # w /\ Committed(r.xmin)
                                          /\ (r.xmax = w \/ r.xmax = NoTx \/ ~Committed(r.xmax))))
  /\ [][\A w \in Writers :
         /\ (tx[w].status = 0 /\ tx'[w].status = 500) =>
               \A sid \in SessionIds : SelectTranscript(sid)' = SelectTranscript(sid)
         /\ tx[w].status = 500 => tx'[w].status = 500
         /\ (tx[w].st = "active" /\ tx'[w].st # "active") => tx'[w].status \in {200, 500}
         /\ (tx[w].st = "active" /\ faults' # faults /\ tx'[w] # tx[w]) => tx'[w].status = 500]_vars

\* the COMMIT of a request failed after its DELETE and its INSERTs had run, and
\* the transcript stored before is still the stored one
C17_Witness ==
  \E w \in Writers :
    /\ tx[w].status = 500 /\ faults = 1
    /\ \E r \in rows : r.xmax = w
    /\ Cardinality({ r \in rows : r.xmin = w }) = Len(tx[w].body.items)
    /\ Len(tx[w].body.items) = 2
    /\ SelectTranscript("s1") = InitTranscript

\* the scenario a committed session was created for
ScenarioOf(sessionId) == (CHOOSE s \in sessions : s.id = sessionId /\ Committed(s.xmin)).scenario_id

\* C18: in every reachable state, every session that has at least one message
\* has the opening line of its scenario as its lowest-position message.
C18_FirstIsOpening ==
  \A sid \in { x \in SessionIds \cup NewIds : SessionExists(x) } :
    SelectTranscript(sid) # <<>> =>
      SelectTranscript(sid)[1] = [role |-> "assistant", content |-> InitialMessage(ScenarioOf(sid))]

\* the committed positions of every session are exactly 0..n-1
PositionsExact ==
  \A sid \in SessionIds \cup NewIds :
    { r.position : r \in CommittedRows(sid) } = 0..(Cardinality(CommittedRows(sid)) - 1)

\* C19: in every committed state the positions of a session's messages are
\* pairwise distinct, non-negative and exactly 0..n-1, and reading them by
\* ascending position yields the payload of the last committed write in order.
C19_OrderOfLastWrite ==
  /\ PositionsExact
  /\ lastOk # 0 => SelectTranscript(tx[lastOk].sessionId) = Plain(tx[lastOk].body.items)

(* ------------------------ unknown session ids -------------------------- *)
\* the committed store holds a session with this id
StoredSession(sessionId) ==
  \E s \in sessions : s.id = sessionId /\ (s.xmin = BootTx \/ cr[s.xmin].st = "committed")

\* C16: for a session id that does not exist, get-session, replaceTranscript
\* and request-analysis answer 404 and change nothing; no message row and no
\* analysis row is ever stored for a session that does not exist, and a
\* rejected request-analysis never starts a background run.
C16_UnknownSession ==
  /\ [](/\ \A r \in rows :
          \/ StoredSession(r.session_id)
          \/ r.xmin \in Creators /\ \E s \in sessions : s.id = r.session_id /\ s.xmin = r.xmin
       /\ \A a \in analyses : StoredSession(a.session_id)
       /\ \A w \in Writers : tx[w].status = 404 => (tx[w].st = "none" /\ TouchedBy(w) = {})
       /\ \A q \in Analyzers : an[q].status = 404 => (an[q].pc = "rejected" /\ an[q].wroteAt = 0)
       /\ \A g \in Readers : rd[g].status = 404 => (rd[g].pc = "done" /\ rd[g].transcript = <<>>))
  /\ [][/\ \A w \in Writers :
          (tx[w].pc = "check" /\ tx'[w] # tx[w] /\ ~StoredSession(tx[w].sessionId)) =>
            (tx'[w].status = 404 /\ tx'[w].pc = "done"
               /\ UNCHANGED <<sessions, rows, analyses>>)
       /\ \A g \in Readers :
          (rd[g].pc = "check" /\ rd'[g] # rd[g] /\ ~StoredSession(rd[g].sessionId)) =>
            (rd'[g].status = 404 /\ UNCHANGED <<sessions, rows, analyses>>)
       /\ \A q \in Analyzers :
          /\ (an[q].pc = "check" /\ an'[q] # an[q] /\ faults' = faults
                /\ ~StoredSession(an[q].sessionId)) =>
               (an'[q].status = 404 /\ UNCHANGED <<sessions, rows, analyses>>)
          /\ an[q].pc = "rejected" => an'[q] = an[q]
       /\ \A w \in Writers : tx[w].status = 404 => tx'[w] = tx[w]]_vars

\* the three requests were answered 404, one of them for the id of a session
\* whose creation was in progress and has committed since
C16_Witness ==
  /\ \E w \in Writers : tx[w].status = 404
  /\ \E g \in Readers : rd[g].status = 404
  /\ \E q \in Analyzers : an[q].status = 404
  /\ \E c \in Creators : cr[c].status = 200 /\
       \/ \E w \in Writers : tx[w].status = 404 /\ tx[w].sessionId = cr[c].sessionId
       \/ \E q \in Analyzers : an[q].status = 404 /\ an[q].sessionId = cr[c].sessionId

(* --------------------------- admin listing ----------------------------- *)
\* the credential of an Authorization header of the Bearer scheme
BearerCredential(authorization) ==
  IF authorization.defined /\ Len(authorization.v) > 0 /\ authorization.v[1] = "Bearer "
  THEN Str(Tail(authorization.v)) ELSE Undefined

\* a token is configured
Configured(adminToken) == adminToken.defined /\ Len(adminToken.v) > 0

\* the header is the token with the text 'Bearer ' at most once in it
TokenWithScheme(authorization, adminToken) ==
  /\ authorization.defined
  /\ \/ authorization.v = adminToken.v
     \/ \E k \in 0..Len(adminToken.v) :
          authorization.v = SubSeq(adminToken.v, 1, k) \o <<"Bearer ">>
                              \o SubSeq(adminToken.v, k + 1, Len(adminToken.v))

\* C20 as stated: the listing returns data only when a token is configured and
\* the bearer credential of the request equals it; without a token every
\* request gets 503; with a token a missing or other credential gets 401.
C20_BearerOnly ==
  \A a \in Admins :
    adm[a].pc \in {"list", "done"} =>
      /\ ~Configured(adm[a].adminToken) => adm[a].status = 503
      /\ (Configured(adm[a].adminToken)
            /\ BearerCredential(adm[a].authorization) # adm[a].adminToken) => adm[a].status = 401
      /\ adm[a].listed # {} =>
            (Configured(adm[a].adminToken)
              /\ BearerCredential(adm[a].authorization) = adm[a].adminToken)

\* C20 (amended): the listing returns data only when a non-empty token is
\* configured and the Authorization header is that token, the text 'Bearer '
\* allowed once in it; without a token every request gets 503 whatever its
\* header; with a token, a missing header or any other header gets 401.
C20_TokenRequired ==
  \A a \in Admins :
    adm[a].pc \in {"list", "done"} =>
      /\ ~Configured(adm[a].adminToken) => (adm[a].status = 503 /\ adm[a].listed = {})
      /\ (Configured(adm[a].adminToken)
            /\ ~TokenWithScheme(adm[a].authorization, adm[a].adminToken)) =>
           (adm[a].status = 401 /\ adm[a].listed = {})
      /\ adm[a].status \in {0, 200, 500} =>
            (Configured(adm[a].adminToken)
              /\ TokenWithScheme(adm[a].authorization, adm[a].adminToken))
      /\ adm[a].listed # {} => adm[a].status = 200

\* the listing was returned for a header that is not of the Bearer scheme
C20_Witness ==
  \E a \in Admins :
    /\ adm[a].status = 200 /\ adm[a].listed = {"s1"}
    /\ adm[a].adminToken = Str(<<"a", "b">>)
    /\ adm[a].authorization = Str(<<"a", "Bearer ", "b">>)

\* the value of ADMIN_TOKEN the process runs with
AdminToken == adm[CHOOSE a \in Admins : TRUE].adminToken

\* C21: the per-session staff view is under the same bearer-token check as
\* the listing: a request without the configured admin token does not
\* receive the session's transcript or analysis.
C21_StaffViewGuarded ==
  \A g \in Readers :
    (rd[g].pc = "done" /\ rd[g].status = 200) =>
      (Configured(AdminToken) /\ TokenWithScheme(rd[g].authorization, AdminToken))

\* the participant messages of a committed transcript
UserRows(sessionId) == { r \in CommittedRows(sessionId) : r.role = "user" }

\* the summary the listing owes a session
ExpectedSummary(sessionId, summary) ==
  IF UserRows(sessionId) = {} THEN summary = NoMessages
  ELSE \E r \in UserRows(sessionId) :
         /\ \A o \in UserRows(sessionId) : r.position <= o.position
         /\ summary.text = r.content
         /\ IF CharLength(r.content) <= 100
            THEN summary.chars = CharLength(r.content) /\ ~summary.ellipsis
            ELSE summary.chars = 100 /\ summary.ellipsis

\* C22: an authorized listing returns every existing session exactly once,
\* newest first, each with the summary of its lowest-position participant
\* message: the message when it has at most 100 characters, its first 100
\* characters and '...' when longer, 'No messages' when there is none.
C22_ListingComplete ==
  [][\A a \in Admins :
       (adm[a].pc = "list" /\ adm'[a].status = 200) =>
         LET result == adm'[a].result
         IN /\ \A sid \in SessionIds \cup NewIds :
                 Cardinality({ i \in 1..Len(result) : result[i].id = sid })
                   = IF StoredSession(sid) THEN 1 ELSE 0
            /\ \A i \in 1..Len(result) :
                 /\ \E s \in sessions : s.id = result[i].id /\ s.created_at = result[i].created_at
                 /\ ExpectedSummary(result[i].id, result[i].summary)
            /\ \A i, j \in 1..Len(result) : i < j => result[i].created_at > result[j].created_at]_vars

\* a listing of three sessions: one without participant message, one with a
\* message of 100 characters after a listing that had it at 101 or none
C22_Witness ==
  \E a \in Admins :
    /\ adm[a].status = 200 /\ Len(adm[a].result) = 3
    /\ \E i \in 1..3 : adm[a].result[i].summary = NoMessages
    /\ \E i \in 1..3 : adm[a].result[i].summary = [text |-> "c100", chars |-> 100, ellipsis |-> FALSE]

(* ------------------------ conversation turns --------------------------- *)
\* C23: a conversation turn leaves sessions, transcript messages and analyses
\* unchanged for every request, and what it submits and replies comes from
\* the request body and the model's answer alone, whatever the stored
\* transcript is.
C23_Stateless ==
  /\ [][cv' # cv => UNCHANGED <<sessions, rows, analyses>>]_vars
  /\ [](cv.pc \in {"await", "done"} =>
         /\ cv.calls = 1 =>
              cv.messages = cv.body.transcript.items
                              \o << [role |-> "user", content |-> cv.body.message.v] >>
         /\ cv.answered =>
              cv.response = (IF cv.content = <<>> THEN "" ELSE cv.content[1].text)
         /\ (cv.pc = "done" /\ ~cv.answered) => cv.response = "")

\* a turn was answered from a body whose history is not the stored transcript
C23_Witness ==
  /\ cv.pc = "done" /\ cv.status = 200 /\ cv.response = "ok"
  /\ cv.body.transcript.items = <<>>
  /\ Len(SelectTranscript("s1")) = 3

\* C24: when the model call succeeds without a text segment the reply is a
\* success with the empty string as its text; otherwise the text of the reply
\* is the first text segment of the answer.
C24_EmptyReplyIsSuccess ==
  (cv.pc = "done" /\ cv.answered) =>
    /\ cv.status = 200
    /\ \A i \in 1..Len(cv.content) : cv.content[i].type = "text"
    /\ IF Len(cv.content) = 0 THEN cv.response = "" ELSE cv.response = cv.content[1].text

\* an answer without content was delivered as a success to the page, which
\* stored the empty assistant message
C24_Witness ==
  /\ cl.pc = "idle" /\ Len(cl.currentTranscript) = 3
  /\ cl.currentTranscript[3] = [role |-> "assistant", content |-> ""]

\* C25: a failing model call is not repeated (one model call per request) and
\* is answered 500; a missing or non-text message, or a scenario without a
\* text system prompt or character name, is answered 400 without a model call.
C25_OneCallOrNone ==
  /\ cv.calls <= 1
  /\ (cv.pc = "done" /\ cv.calls = 1 /\ ~cv.answered) => cv.status = 500
  /\ cv.pc \in {"await", "done"} =>
       ((\/ cv.body.message.t # "string"
         \/ cv.body.scenario.t # "object"
         \/ cv.body.scenario.systemPromptT # "string"
         \/ cv.body.scenario.characterNameT # "string")
        => (cv.status = 400 /\ cv.calls = 0 /\ cv.pc = "done"))

\* the model call of a turn of the page failed
C25_Witness ==
  /\ cv.pc = "done" /\ cv.from = "page" /\ cv.status = 500
  /\ cv.calls = 1 /\ ~cv.answered

\* C26: the context a turn submits is the prior transcript in its order with
\* the new participant message as its last entry, and its entries alternate
\* between the participant and the assistant.
C26_ContextAlternates ==
  cv.pc = "await" =>
    /\ cv.messages = cv.body.transcript.items
                       \o << [role |-> "user", content |-> cv.body.message.v] >>
    /\ \A i \in 1..(Len(cv.messages) - 1) : cv.messages[i].role # cv.messages[i + 1].role

(* ---------------------------- transcription ---------------------------- *)
\* C27: after a transcribe request has ended, on any path, no temporary file
\* of that request remains: neither the uploaded file nor the converted WAV.
C27_NoTempFileLeft ==
  stt.pc = "done" => \A f \in stt.files : f[1] # stt.n

\* C28: transcribe answers 400 without audio whether or not the engine is
\* available, 503 with audio and no engine, and then neither the conversion
\* nor the engine is invoked; a conversion is started only when both checks pass.
C28_ChecksBeforeConversion ==
  /\ stt.pc \in {"convert", "whisper", "done"} =>
       /\ ~stt.hasFile => (stt.status = 400 /\ stt.pc = "done")
       /\ (stt.hasFile /\ ~stt.whisperAvailable) => (stt.status = 503 /\ stt.pc = "done")
  /\ stt.status \in {400, 503} => (stt.conversions = 0 /\ stt.runs = 0)
  /\ stt.conversions > 0 => (stt.hasFile /\ stt.whisperAvailable)
  /\ stt.runs <= stt.conversions /\ stt.conversions <= 1

\* no audio and no engine: 400
C28_Witness ==
  stt.pc = "done" /\ stt.status = 400 /\ ~stt.whisperAvailable /\ stt.n = 2

C30_PoolClosedLast ==
  /\ srv.pool = "ended" => (~srv.listening /\ InFlight = {})
  /\ srv.rejected = 0

(* ------------------------ concurrent replaces -------------------------- *)
\* C31: two replaceTranscript calls with valid payloads for the same existing
\* session, concurrent or not and with no store failure, both apply: both
\* answer the success marker, both transactions commit, and the committed
\* transcript is the payload of the one that committed last.
C31_BothApply ==
  \A a, b \in Writers :
    ( /\ a # b /\ faults = 0
      /\ tx[a].pc = "done" /\ tx[b].pc = "done"
      /\ tx[a].sessionId = tx[b].sessionId /\ SessionExists(tx[a].sessionId)
      /\ ValidTranscript(tx[a].body) /\ ValidTranscript(tx[b].body) )
    => /\ tx[a].status = 200 /\ tx[b].status = 200
       /\ tx[a].st = "committed" /\ tx[b].st = "committed"
       /\ SelectTranscript(tx[a].sessionId) = Plain(tx[lastOk].body.items)

(* ------------------------- the page and the store --------------------- *)
\* C32: when a sendMessage of the participant's page completes without
\* reporting an error, the transcript stored for the current session equals
\* the page's currentTranscript, also after earlier failed sendMessages.
C32_ViewsAgree ==
  [][(cl.pc = "put" /\ cl'.pc = "idle" /\ cl'.error = "none")
       => SelectTranscript("s1")' = cl'.currentTranscript]_vars

\* C35: at most one sendMessage of the page is in progress: the flag is set
\* exactly while one is in progress (so it is false again after every end,
\* whether the conversation request or the save succeeded, failed or threw),
\* an invocation made meanwhile changes neither currentTranscript nor any
\* request, and the page issues a conversation request only when none is
\* in progress.
C35_OneSendAtATime ==
  /\ [](cl.sendingMessage <=> cl.pc # "idle")
  /\ [][(cl.sendingMessage /\ cl.last # "ignored" /\ cl'.last = "ignored")
         => (cl'.currentTranscript = cl.currentTranscript /\ UNCHANGED <<cv, tx>>)]_vars
  /\ [][(cv'.from = "page" /\ cv.from # "page") => ~cl.sendingMessage]_vars

\* an invocation was ignored during a sendMessage whose save committed and
\* whose fetch then rejected: it ended in the catch block
C35_Witness ==
  /\ cl.pc = "idle" /\ cl.last = "ignored"
  /\ cl.error = "Failed to fetch"
  /\ \E w \in Writers : tx[w].status = 200

(* --------------------------- the dashboard ----------------------------- *)
\* C33: polling for a session whose analysis never arrives stops: after at
\* most MAX_POLL_ATTEMPTS poll attempts the timer is cleared, the notice is
\* shown, and no further get-session request is issued for the session.
C33_PollingStops == ui.polled <= MAX_POLL_ATTEMPTS

\* C34: at most one polling interval is set at any time, for any interleaving
\* of clicks, ticks, responses and logout; after logout, and after an
\* analysis is displayed, no interval is left.
C34_OneTimer ==
  /\ \A s \in Listed : ui.leaked[s] = 0
  /\ ui.pc = "login" => ui.timer = "null"

\* C40: when a login attempt or the automatic login at start has finished,
\* a token is in sessionStorage only if the listing answered it with
\* success; after a 401, a 503, another failure status or a rejected fetch
\* the token is cleared and the dashboard is not shown.
C40_TokenOnlyIfAccepted ==
  (ui.pc \in {"login", "dashboard"}) =>
    /\ ui.token # "" => (ui.status = 200 /\ ui.shown)
    /\ ui.status \in (ListingOutcomes \ {200}) => (ui.token = "" /\ ~ui.shown)

\* a login attempt with a token was answered 500
C40_Witness ==
  /\ ui.pc = "login" /\ ui.status = 500
  /\ ui.message = "Connection error. Please try again."

(* ------------------------ the analysis lifecycle ----------------------- *)
\* C36: get-session returns a null analysis exactly when the session has no
\* row in analyses at its read: once a run has persisted a result, parsed or
\* fallback, a get-session returns a non-null analysis, whatever text the
\* model returned.
C36_NullIffNoRow ==
  [][\A g \in Readers :
       (rd[g].pc = "analysis" /\ rd'[g].pc = "done")
       => (rd'[g].analysis = Null <=> SelectAnalysis(rd[g].sessionId) = {})]_vars

\* C37: no operation deletes a session or a row of analyses: a session that
\* get-session can find stays known in every later state, and a session that
\* has an analysis row has one in every later state (updated in place).
C37_Monotone ==
  [][/\ \A sid \in SessionIds \cup NewIds : SessionExists(sid) => SessionExists(sid)'
     /\ \A sid \in SessionIds \cup NewIds :
          SelectAnalysis(sid) # {} => SelectAnalysis(sid)' # {}]_vars

(* ------------------------------- frame --------------------------------- *)
\* the row versions and analysis rows of the sessions other than sessionId
OtherRows(R, sessionId) == { r \in R : r.session_id # sessionId }
OtherSessions(S, sessionId) == { x \in S : x.id # sessionId }

\* C38: a replaceTranscript on S changes only transcript messages of S
\* (sessions, every analysis row and the messages of other sessions stay); a
\* background run for S changes only the analysis row of S (no message, no
\* session row, no other analysis row); a createSession changes no row of a
\* session that existed before.
C38_Frame ==
  [][/\ \A w \in Writers : tx'[w] # tx[w] =>
          /\ sessions' = sessions /\ analyses' = analyses
          /\ OtherRows(rows', tx'[w].sessionId) = OtherRows(rows, tx'[w].sessionId)
     /\ \A q \in Analyzers : an'[q] # an[q] =>
          /\ rows' = rows /\ sessions' = sessions
          /\ OtherRows(analyses', an'[q].sessionId) = OtherRows(analyses, an'[q].sessionId)
     /\ \A c \in Creators : cr'[c] # cr[c] =>
          /\ analyses' = analyses
          /\ OtherRows(rows', cr'[c].sessionId) = OtherRows(rows, cr'[c].sessionId)
          /\ OtherSessions(sessions', cr'[c].sessionId) = OtherSessions(sessions, cr'[c].sessionId)]_vars

\* a run for s1 wrote its row while the created session had an analysis row,
\* after a replace of s1 had committed
C38_Witness ==
  /\ \E a, b \in analyses : a.session_id = "s1" /\ b.session_id # "s1" /\ a.updated_at > b.updated_at
  /\ \E w \in Writers : tx[w].st = "committed" /\ tx[w].sessionId = "s1"
  /\ \E c \in Creators : cr[c].st = "committed"

\* the analysis row of s1 was written by two runs, the second storing the
\* JSON value null, after a replace and a create had committed
C37_Witness ==
  /\ \A q \in Analyzers : an[q].pc = "done" /\ an[q].sessionId = "s1"
  /\ \E a \in analyses : a.session_id = "s1" /\ a.result = Null /\ a.updated_at > 1
  /\ \E w \in Writers : tx[w].st = "committed"
  /\ \E c \in Creators : cr[c].st = "committed"

(* ------------------------ what a run analyses ------------------------- *)
\* C39: the transcript a background run embeds in its prompt is the full
\* transcript of the session in position order as committed when the run
\* reads it, and it is one complete committed transcript (the one before or
\* the one after a concurrent replace, or the opening line of a created
\* session), never a partly replaced one.
C39_RunReadsWhole ==
  /\ [][\A q \in Analyzers :
          (an[q].pc = "read" /\ an'[q].pc = "model")
          => an'[q].transcript = SelectTranscript(an[q].sessionId)]_vars
  /\ [](\A q \in Analyzers :
          an[q].pc \in {"model", "write", "done"} =>
            \/ an[q].sessionId = "s1" /\ an[q].transcript = InitTranscript
            \/ \E w \in Writers : /\ tx[w].st = "committed" /\ tx[w].sessionId = an[q].sessionId
                                   /\ an[q].transcript = Plain(tx[w].body.items)
            \/ \E c \in Creators : /\ cr[c].st = "committed" /\ cr[c].sessionId = an[q].sessionId
                                    /\ an[q].transcript = cr[c].transcript)

\* two runs of s1 read on either side of a replace: one holds the transcript
\* before it and the other the transcript after it
C39_Witness ==
  \E p, q \in Analyzers :
    /\ an[p].sessionId = "s1" /\ an[q].sessionId = "s1"
    /\ an[p].pc = "done" /\ an[q].pc = "model"
    /\ an[p].transcript = InitTranscript
    /\ \E w \in Writers : tx[w].st = "committed" /\ an[q].transcript = Plain(tx[w].body.items)
    /\ an[q].transcript # InitTranscript

TypeOK == faults \in 0..MaxFaults
====
